---- MODULE Spec2Model ----
(***************************************************************************)
(* Model of the grblHAL SD card / file system plugins:                     *)
(*   - fs_stream.c : the job player (file streaming, rewind, status trap)  *)
(*   - macros.c    : the G65 macro call stack                              *)
(*   - ymodem.c    : the YModem upload receiver                            *)
(* Function pointers are modelled as strings holding the name of the C     *)
(* function they point to; "NULL" is the null pointer and "core" stands    *)
(* for the handler the firmware core (or an earlier plugin) had installed. *)
(***************************************************************************)
EXTENDS Integers, Sequences, FiniteSets, TLC

\* ------------------------------------------------------------------ bounds
MaxLen   == 2   \* longest job file, in bytes
MaxLine  == 2   \* polls are no longer explored once file.line reaches this
MaxTasks == 2   \* queued terminate_job tasks the model follows
MaxRepeats == 2 \* largest repeat count a G65 block asks for
RxBufferSize == 3 \* slots of the upload ring buffer (RX_BUFFER_SIZE of the core)
MaxBlocks == 2  \* data packets of the longest upload
MaxDir == 2     \* files of the largest root directory listed
MaxEvents == 2  \* program-complete events of one job that are told apart
MaxRetries == 2 \* NAKs after which the sender of a retransmitted packet gives up
MaxPuts    == 6 \* bytes the receive interrupt hands to put_char

\* --------------------------------------------------------------- constants
NoData == -1    \* SERIAL_NO_DATA, also the EOF value of file_read
CR == 13
LF == 10

\* Job files are built from CR, LF and 'X' (88), a byte that is neither.
Bytes == {88, CR, LF}

States == {"IDLE", "CYCLE", "HOLD", "CHECK_MODE", "TOOL_CHANGE", "ALARM"}

Transports == {"Serial", "WebSocket"}

FileNames == {"job", "dir", "locked", "missing"}

Flows == {"M2", "M30", "Return"}

RtBytes == {"TOOL_ACK", "RT", "CHAR"}

VARIABLES
    state,          \* controller state, state_get()
    cfg,            \* build and settings: WEBUI_ENABLE, m98_prescan_enable
    disk,           \* content of the job file on the mounted file system
    fs_mounted,     \* fs.mounted
    file,           \* file_t file
    vfs_off,        \* read offset the VFS keeps for the open job handle
    handles,        \* number of VFS handles currently open
    frewind,        \* rewind armed
    webui,          \* job was started from the WebUI
    hal_stream,     \* hal.stream
    active_stream,  \* saved copy of hal.stream
    rt,             \* real-time handler installed in each transport
    grbl,           \* hook slots of the core the job player hooks into
    saved,          \* the job player's saved previous handlers
    tasks,          \* queued foreground tasks
    crashed,        \* a NULL function pointer was called or recursion did not end
    last,           \* the handler that ran last, its inputs and its result
    pre,            \* hal.stream, hooks and rt handlers at the last job start
    jobst,          \* "none", "running" or "ended"
    nl,             \* line breaks handed to the reader since the file was (re)started
    completions,    \* program-complete events stream_read raised since it closed the
                    \* job file at its physical end, counted up to MaxEvents; -1
                    \* while the open job file was not closed that way
    mac,            \* the static variables of macros.c
    redir,          \* files the core reads redirected input from, innermost last
    repeats,        \* repeat count (L word) the G65 block asked for that pushed the
                    \* frame on top, 0 when the top frame was not just pushed by one
    ymodem,         \* ymodem_t ymodem
    ysaved,         \* the handlers ymodem.c saved: rt_handler, on_execute_realtime, ...
    rx_buffer,      \* the ring buffer put_char fills and get_char empties
    gc,             \* a get_char() call executed statement by statement: its
                    \* position and locals, with the bytes put_char has stored,
                    \* the bytes it was called with and the bytes get_char returned
    out,            \* bytes written with hal.stream.write_char the sender has not read yet
    vfs,            \* the destination file of the upload and the calls made on it
    sender,         \* the uploading program at the other end of the line
    dirs,           \* the directories of the mounted file system
    lst             \* current directory, listing setting and the lines the last
                    \* listing command wrote

jvars == <<state, cfg, disk, fs_mounted, file, vfs_off, handles, frewind, webui,
           hal_stream, active_stream, rt, grbl, saved, tasks, crashed, last, pre, jobst, nl,
           completions>>

mvars == <<mac, redir, repeats>>

yvars == <<ymodem, ysaved, rx_buffer, gc, out, vfs, sender>>

lvars == <<dirs, lst>>

vars == <<jvars, mvars, yvars, lvars>>

\* All job player state as one record, so that handlers compose as functions.
JS == [state |-> state, cfg |-> cfg, disk |-> disk, fs_mounted |-> fs_mounted,
       file |-> file, vfs_off |-> vfs_off, handles |-> handles,
       frewind |-> frewind, webui |-> webui, hal_stream |-> hal_stream,
       active_stream |-> active_stream, rt |-> rt, grbl |-> grbl, saved |-> saved,
       tasks |-> tasks, crashed |-> crashed, last |-> last, pre |-> pre,
       jobst |-> jobst, nl |-> nl, completions |-> completions, mac |-> mac, redir |-> redir,
       repeats |-> repeats, ymodem |-> ymodem, ysaved |-> ysaved,
       rx_buffer |-> rx_buffer, gc |-> gc, out |-> out, vfs |-> vfs, sender |-> sender,
       dirs |-> dirs, lst |-> lst,
       ret |-> 0]

Commit(S) ==
    /\ state' = S.state
    /\ cfg' = S.cfg
    /\ disk' = S.disk
    /\ fs_mounted' = S.fs_mounted
    /\ file' = S.file
    /\ vfs_off' = S.vfs_off
    /\ handles' = S.handles
    /\ frewind' = S.frewind
    /\ webui' = S.webui
    /\ hal_stream' = S.hal_stream
    /\ active_stream' = S.active_stream
    /\ rt' = S.rt
    /\ grbl' = S.grbl
    /\ saved' = S.saved
    /\ tasks' = S.tasks
    /\ crashed' = S.crashed
    /\ last' = S.last
    /\ pre' = S.pre
    /\ jobst' = S.jobst
    /\ nl' = S.nl
    /\ completions' = S.completions
    /\ mac' = S.mac
    /\ redir' = S.redir
    /\ repeats' = S.repeats
    /\ ymodem' = S.ymodem
    /\ ysaved' = S.ysaved
    /\ rx_buffer' = S.rx_buffer
    /\ gc' = S.gc
    /\ out' = S.out
    /\ vfs' = S.vfs
    /\ sender' = S.sender
    /\ dirs' = S.dirs
    /\ lst' = S.lst

\* The endpoint a transport registers with the core.
NativeStream(t, w) ==
    [type |-> t, read |-> "native", file |-> "NULL",
     suspend_read |-> IF t = "Serial" THEN "native_suspend" ELSE "NULL",
     tp |-> t, webui_connected |-> w, m98_macro_prescan |-> FALSE]

NullStream ==
    [type |-> "Null", read |-> "NULL", file |-> "NULL", suspend_read |-> "NULL",
     tp |-> "none", webui_connected |-> FALSE, m98_macro_prescan |-> FALSE]

AllFiles == UNION {[1..n -> Bytes] : n \in 0..MaxLen}

\* ------------------------------------------------------------ file access

\* vfs_stat(fname) succeeds
StatOk(fname) == fname \in {"job", "dir", "locked"}

IsDirectory(fname) == fname = "dir"

\* vfs_open(fname, "r") succeeds
OpenOk(fname) == fname = "job"

file_close(S) ==
    IF S.file.handle # "NULL"
    THEN [S EXCEPT !.handles = @ - 1,
                   !.hal_stream.file = IF @ = S.file.handle THEN "NULL" ELSE @,
                   !.file.handle = "NULL"]
    ELSE S

file_open(S, fname) ==
    LET S1 == IF S.file.handle # "NULL" THEN file_close(S) ELSE S
    IN  IF OpenOk(fname)
        THEN [S1 EXCEPT !.handles = @ + 1,
                        !.vfs_off = 0, !.nl = 0, !.completions = -1,
                        !.file = [handle |-> "H", size |-> Len(S.disk), pos |-> 0,
                                  line |-> 0, eol |-> 0, scan_subs |-> FALSE]]
        ELSE S1

file_rewind(S) ==
    [S EXCEPT !.vfs_off = 0, !.file.pos = 0, !.file.line = 0, !.file.eol = 0,
              !.nl = 0]

\* file_read counting the failed read at end of file as a byte read.
file_read_counts_eof(S) ==
    LET got == S.file.handle # "NULL" /\ S.vfs_off < Len(S.disk)
        c   == IF got THEN S.disk[S.vfs_off + 1] ELSE NoData
        S1  == IF S.file.handle # "NULL"
               THEN [S EXCEPT !.vfs_off = IF got THEN @ + 1 ELSE @,
                              !.file.pos = S.vfs_off + 1]
               ELSE S
    IN  [S1 EXCEPT !.file.eol = IF c = CR \/ c = LF THEN (@ + 1) % 256 ELSE 0,
                   !.ret = c]

\* Reads one byte; the byte (or -1) is left in ret.
file_read(S) ==
    LET got == S.file.handle # "NULL" /\ S.vfs_off < Len(S.disk)
        c   == IF got THEN S.disk[S.vfs_off + 1] ELSE NoData
        S1  == IF got THEN [S EXCEPT !.vfs_off = @ + 1, !.file.pos = S.vfs_off + 1]
                      ELSE S
    IN  [S1 EXCEPT !.file.eol = IF c = CR \/ c = LF THEN (@ + 1) % 256 ELSE 0,
                   !.ret = c]

\* --------------------------------------------------------- stream plumbing

\* stream.set_enqueue_rt_handler(h) of endpoint ep: installs h in the transport
\* ep belongs to. A call through an endpoint that was never filled in is a call
\* through a NULL pointer.
set_enqueue_rt_handler(S, ep, h) ==
    IF ep.tp \in Transports THEN [S EXCEPT !.rt[ep.tp] = h]
    ELSE [S EXCEPT !.crashed = TRUE]

rt_handler_of(S, ep) == IF ep.tp \in Transports THEN S.rt[ep.tp] ELSE "NULL"

task_add_immediate(S, task) ==
    IF Len(S.tasks) < MaxTasks THEN [S EXCEPT !.tasks = Append(@, task)] ELSE S

\* Calls of a hook of the core whose handler is not the job player's.
call_chain(S, fn) == IF fn = "NULL" THEN [S EXCEPT !.crashed = TRUE] ELSE S

\* The record an action starts from: last names the handler and its input.
Enter(op, arg) ==
    [JS EXCEPT !.last = [op |-> op, arg |-> arg, ret |-> "none", fwd |-> 0, msg |-> -1]]

\* ------------------------------------------------------------ job player

stream_changed(S, type) ==
    LET S1 ==
          IF type # "File" /\ S.file.handle # "NULL"
          THEN IF S.webui /\ (type # "WebSocket" \/ S.hal_stream.webui_connected)
               THEN LET A == set_enqueue_rt_handler(S, S.active_stream,
                                                    S.saved.enqueue_realtime_command)
                        B == [A EXCEPT
                                !.active_stream = A.hal_stream,
                                !.hal_stream.read = A.saved.read_redirected,
                                !.hal_stream.type = "File",
                                !.hal_stream.file = A.file.handle,
                                !.hal_stream.suspend_read =
                                    IF @ # "NULL" THEN "stream_suspend" ELSE "NULL"]
                        C == set_enqueue_rt_handler(B, B.hal_stream,
                                 IF type = "WebSocket" THEN "drop_input_stream"
                                                       ELSE "check_input_stream")
                    IN  [C EXCEPT !.saved.enqueue_realtime_command =
                                      rt_handler_of(B, B.hal_stream)]
               ELSE task_add_immediate(S, "terminate_job")
          ELSE S
    IN  S1  \* on_stream_changed(type), when set, is a handler of the core

\* grbl.on_stream_changed(type), called when the slot is not NULL
call_on_stream_changed(S, type) ==
    IF S.grbl.on_stream_changed = "stream_changed" THEN stream_changed(S, type) ELSE S

stream_end_job(S, flush) ==
    LET S1 == file_close(S)
        S2 == [S1 EXCEPT
                 !.grbl.on_program_completed =
                     IF @ = "onProgramCompleted" THEN S1.saved.on_program_completed ELSE @,
                 !.grbl.on_cycle_start =
                     IF @ = "onCycleStart" THEN S1.saved.on_cycle_start ELSE @,
                 !.saved.on_cycle_start =
                     IF S1.grbl.on_cycle_start = "onCycleStart" THEN "NULL" ELSE @,
                 !.grbl.on_stream_changed = S1.saved.on_stream_changed,
                 !.hal_stream = S1.active_stream,
                 !.active_stream.type = "Null"]
        S3 == set_enqueue_rt_handler(S2, S2.hal_stream, S2.saved.enqueue_realtime_command)
        S4 == [S3 EXCEPT
                 !.grbl.status_message =
                     IF @ = "trap_status_messages" THEN S3.saved.status_message
                     ELSE "core",                        \* report_init_fns()
                 !.saved.status_message = "NULL",
                 !.webui = FALSE, !.frewind = FALSE,
                 !.jobst = "ended"]
    IN  IF S4.grbl.on_stream_changed # "NULL"
        THEN call_on_stream_changed(S4, S4.hal_stream.type)
        ELSE S4

RECURSIVE trap_status_messages(_, _, _)
RECURSIVE report_status_message(_, _, _)

\* A status handler that is not the job player's is called with the status.
call_status_handler(S) == [S EXCEPT !.last.fwd = @ + 1]

\* grbl.report.status_message(status_code)
report_status_message(S, code, depth) ==
    CASE S.grbl.status_message = "trap_status_messages" ->
             trap_status_messages(S, code, depth)
      [] S.grbl.status_message = "NULL" -> [S EXCEPT !.crashed = TRUE]
      [] OTHER -> call_status_handler(S)

trap_status_messages(S, code, depth) ==
    IF depth > 3 THEN [S EXCEPT !.crashed = TRUE]
    ELSE IF S.hal_stream.read # S.saved.read_redirected
    THEN CASE S.saved.status_message = "trap_status_messages" ->
                  trap_status_messages(S, code, depth + 1)
           [] S.saved.status_message = "NULL" -> [S EXCEPT !.crashed = TRUE]
           [] OTHER -> call_status_handler(S)
    ELSE IF code # "OK"
    THEN \* "error:%d in SD file at line %lu" is written first
         report_status_message(stream_end_job([S EXCEPT !.last.msg = S.file.line], TRUE),
                               code, depth + 1)
    ELSE S

onProgramCompleted(S, program_flow) ==
    LET m98 == S.hal_stream.m98_macro_prescan
        S1 ==
          IF S.file.scan_subs
          THEN IF ~m98
               THEN IF program_flow \in {"M2", "M30"}
                    THEN [S EXCEPT !.hal_stream.m98_macro_prescan = TRUE]
                    ELSE [file_rewind([S EXCEPT !.file.scan_subs = FALSE])
                              EXCEPT !.state = "IDLE"]
               ELSE S
          ELSE IF ~m98
          THEN LET A == [S EXCEPT !.frewind = IF S.cfg.WEBUI_ENABLE
                                               THEN @ \/ program_flow = "M2"
                                               ELSE FALSE]
               IN  IF (A.frewind /\ ~A.hal_stream.webui_connected)
                        \/ program_flow = "Return"
                   THEN LET B == file_rewind(A)
                        IN  IF program_flow # "Return"
                            THEN \* sdcard_restart_msg is queued as well: it only
                                 \* emits the cycle-start-to-rerun feedback message
                                 [B EXCEPT
                                    !.hal_stream.read = "await_cycle_start",
                                    !.saved.on_cycle_start =
                                        IF B.grbl.on_cycle_start # "onCycleStart"
                                        THEN B.grbl.on_cycle_start ELSE @,
                                    !.grbl.on_cycle_start = "onCycleStart"]
                            ELSE B
                   ELSE stream_end_job(A, TRUE)
          ELSE S
        S2 == S1
    IN  \* the saved handler is called next; when it is onProgramCompleted itself
        \* the call never returns
        IF S2.saved.on_program_completed = "onProgramCompleted"
        THEN [S2 EXCEPT !.crashed = TRUE]
        ELSE S2

AllowedRead == {"IDLE", "CYCLE", "HOLD", "CHECK_MODE", "TOOL_CHANGE"}

IsEol(c) == c = CR \/ c = LF

stream_read(S) ==
    LET S1 == IF S.file.eol = 1 THEN [S EXCEPT !.file.line = @ + 1] ELSE S
    IN  IF S1.file.handle # "NULL"
        THEN LET S2 == IF S1.state \in AllowedRead THEN file_read(S1)
                       ELSE [S1 EXCEPT !.ret = NoData]
             IN  IF S2.ret = -1
                 THEN LET S3 == IF S2.file.scan_subs
                                THEN [file_rewind(
                                        [S2 EXCEPT !.hal_stream.m98_macro_prescan = FALSE,
                                                   !.file.scan_subs = FALSE])
                                      EXCEPT !.state = "IDLE"]
                                ELSE [file_close(S2) EXCEPT !.completions =
                                         IF S1.state \in AllowedRead
                                              /\ S1.vfs_off = Len(S1.disk)
                                         THEN 0 ELSE @]
                      IN  IF S3.file.eol = 0
                          THEN [S3 EXCEPT !.ret = LF, !.nl = @ + 1]
                          ELSE S3
                 ELSE IF IsEol(S2.ret) /\ S2.file.eol = 1
                      THEN [S2 EXCEPT !.nl = @ + 1]
                      ELSE S2
        ELSE IF S1.state \in {"IDLE", "CHECK_MODE"}
                  /\ S1.grbl.on_program_completed = "onProgramCompleted"
        THEN \* grbl.report.feedback_message(Message_ProgramEnd) follows the call
             [onProgramCompleted(S1, "M30")
                 EXCEPT !.ret = NoData,
                        !.completions = IF @ >= 0 /\ @ < MaxEvents THEN @ + 1 ELSE @]
        ELSE [S1 EXCEPT !.ret = NoData]

onCycleStart(S) ==
    LET S1 == IF S.hal_stream.read = "await_cycle_start"
              THEN [S EXCEPT !.hal_stream.read = S.saved.read_redirected] ELSE S
    IN  IF S1.grbl.on_cycle_start = "onCycleStart"
        THEN [S1 EXCEPT !.grbl.on_cycle_start = S1.saved.on_cycle_start,
                        !.saved.on_cycle_start = "NULL"]
        ELSE S1  \* on_cycle_start(), when set, is a handler of the core

\* enqueue_realtime_command(c) through the saved pointer; ret is its result.
\* The core's handler returns true for a real-time command byte and false for
\* an ordinary one. A saved pointer that is one of the job player's own
\* handlers ends up calling itself without end, except for the tool change
\* acknowledge, which await_toolchange_ack handles without a further call.
call_saved_enqueue(S, c) ==
    CASE S.saved.enqueue_realtime_command = "core" ->
             [S EXCEPT !.ret = IF c = "CHAR" THEN 0 ELSE 1]
      [] S.saved.enqueue_realtime_command = "await_toolchange_ack" /\ c = "TOOL_ACK" ->
             [set_enqueue_rt_handler(S, S.active_stream, "await_toolchange_ack")
                 EXCEPT !.hal_stream.read = S.active_stream.read, !.ret = 1]
      [] OTHER -> [S EXCEPT !.crashed = TRUE, !.ret = 1]

drop_input_stream(S, c) == [call_saved_enqueue(S, c) EXCEPT !.ret = 1]

await_toolchange_ack(S, c) ==
    IF c = "TOOL_ACK"
    THEN [set_enqueue_rt_handler(S, S.active_stream, S.saved.enqueue_realtime_command)
             EXCEPT !.hal_stream.read = S.active_stream.read, !.ret = 1]
    ELSE call_saved_enqueue(S, c)

stream_suspend(S, suspend) ==
    IF suspend
    THEN set_enqueue_rt_handler([S EXCEPT !.hal_stream.read = "stream_get_null"],
                                S.active_stream, "await_toolchange_ack")
    ELSE set_enqueue_rt_handler([S EXCEPT !.hal_stream.read = S.saved.read_redirected],
                                S.hal_stream, "drop_input_stream")

\* abort: protocol_execute_realtime() reported a system abort while waiting
terminate_job(S, abort) ==
    LET S1 == IF S.state = "CYCLE" /\ ~abort THEN [S EXCEPT !.state = "IDLE"] ELSE S
    IN  stream_end_job(S1, FALSE)

check_input_stream(S, c) ==
    LET S1 == call_saved_enqueue(S, c)
    IN  IF S1.ret = 0 /\ S1.hal_stream.read # "stream_get_null"
        THEN [task_add_immediate([S1 EXCEPT !.hal_stream.read = "stream_get_null"],
                                 "terminate_job") EXCEPT !.ret = 0]
        ELSE S1

\* stream_file once the start of the job was reported: hal.stream becomes the
\* file stream and the hooks for program end and status messages are set.
stream_file_set_stream(A) ==
    LET scan == A.state # "CHECK_MODE" /\ A.cfg.m98_prescan_enable
    IN  [A EXCEPT
           !.webui = A.hal_stream.webui_connected,
           !.active_stream = A.hal_stream,
           !.hal_stream.read = "stream_read",
           !.hal_stream.type = "File",
           !.hal_stream.file = A.file.handle,
           !.hal_stream.suspend_read =
               IF @ # "NULL" THEN "stream_suspend" ELSE "NULL",
           !.file.scan_subs = scan,
           !.state = IF scan THEN "CHECK_MODE" ELSE @,
           !.saved.on_program_completed = A.grbl.on_program_completed,
           !.grbl.on_program_completed = "onProgramCompleted",
           !.saved.status_message = A.grbl.status_message,
           !.grbl.status_message = "trap_status_messages",
           !.saved.enqueue_realtime_command = rt_handler_of(A, A.hal_stream)]

\* hal.stream.set_enqueue_rt_handler(drop_input_stream)
stream_file_set_handler(B) == set_enqueue_rt_handler(B, B.hal_stream, "drop_input_stream")

\* if(grbl.on_stream_changed) grbl.on_stream_changed(hal.stream.type)
stream_file_notify(C) ==
    IF C.grbl.on_stream_changed # "NULL"
    THEN call_on_stream_changed(C, C.hal_stream.type) ELSE C

\* The last statements of stream_file; S is the state stream_file was entered in.
stream_file_set_hooks(S, D) ==
    [D EXCEPT
       !.saved.read_redirected = D.hal_stream.read,
       !.saved.on_stream_changed =
           IF D.grbl.on_stream_changed # "stream_changed"
           THEN D.grbl.on_stream_changed ELSE @,
       !.grbl.on_stream_changed = "stream_changed",
       !.last.ret = "Status_OK",
       !.pre = [hal_stream |-> S.hal_stream, grbl |-> S.grbl, rt |-> S.rt],
       !.jobst = "running"]

\* The part of stream_file that runs once the job file O.file is open: it
\* redirects hal.stream to the file and installs the hooks. S is the state
\* stream_file was entered in.
stream_file_redirect(S, O) ==
    stream_file_set_hooks(S,
        stream_file_notify(
            stream_file_set_handler(
                stream_file_set_stream(report_status_message(O, "OK", 0)))))

\* stream_file with the busy test made after the file was opened.
stream_file_opens_first(S, fname) ==
    IF ~S.fs_mounted THEN [S EXCEPT !.last.ret = "Status_SDNotMounted"]
    ELSE IF StatOk(fname)
    THEN IF IsDirectory(fname)
         THEN [S EXCEPT !.last.ret = "Status_OK"]
         ELSE LET O == file_open(S, fname)
              IN  IF ~(S.state = "IDLE" \/ S.state = "CHECK_MODE")
                  THEN [O EXCEPT !.last.ret = "Status_SystemGClock"]
                  ELSE IF O.file.handle # "NULL"
                  THEN stream_file_redirect(S, O)
                  ELSE [O EXCEPT !.last.ret = "Status_Unhandled"]
    ELSE [S EXCEPT !.last.ret = "Status_FileOpenFailed"]

\* S.state is the controller state the command dispatcher passes, state_get()
stream_file(S, fname) ==
    IF ~S.fs_mounted THEN [S EXCEPT !.last.ret = "Status_SDNotMounted"]
    ELSE IF ~(S.state = "IDLE" \/ S.state = "CHECK_MODE")
    THEN [S EXCEPT !.last.ret = "Status_SystemGClock"]
    ELSE IF StatOk(fname)
    THEN IF IsDirectory(fname)
         THEN [S EXCEPT !.last.ret = "Status_OK"]           \* vfs_chdir(fname)
         ELSE LET O == file_open(S, fname)
              IN  IF O.file.handle # "NULL"
                  THEN stream_file_redirect(S, O)
                  ELSE [O EXCEPT !.last.ret = "Status_Unhandled"]
    ELSE [S EXCEPT !.last.ret = "Status_FileOpenFailed"]

RECURSIVE read_to_eof(_)
read_to_eof(S) == LET S1 == file_read(S) IN IF S1.ret = -1 THEN S1 ELSE read_to_eof(S1)

sd_cmd_to_output(S, fname) ==
    IF ~S.fs_mounted THEN [S EXCEPT !.last.ret = "Status_SDNotMounted"]
    ELSE IF ~(S.state = "IDLE" \/ S.state = "CHECK_MODE")
    THEN [S EXCEPT !.last.ret = "Status_SystemGClock"]
    ELSE LET O == file_open(S, fname)
         IN  IF O.file.handle # "NULL"
             THEN [file_close(read_to_eof(O)) EXCEPT !.last.ret = "Status_OK"]
             ELSE [O EXCEPT !.last.ret = "Status_FileOpenFailed"]

\* The handler is left by a call of the next reset handler in the chain, see
\* call_driver_reset.
onReset(S) ==
    IF S.hal_stream.type = "File" /\ S.active_stream.type # "Null"
    THEN stream_end_job(S, TRUE)
    ELSE S

onFsMount(S) ==
    [S EXCEPT !.fs_mounted = TRUE,
              !.saved.driver_reset = IF @ = "NULL" THEN S.grbl.driver_reset ELSE @,
              !.grbl.driver_reset = IF S.saved.driver_reset = "NULL" THEN "onReset" ELSE @]

onFsUnmount(S) == [S EXCEPT !.fs_mounted = FALSE]

\* ------------------------------------------------------- macro call stack

MACRO_STACK_DEPTH == 5

\* Macro numbers the model calls: 1 is an inbuilt macro, 50 an unused number
\* below 100, 100 a macro file that exists and 101 one that does not.
MacroIds == {1, 50, 100, 101}

\* Macro files on the file systems, as <<directory, macro number>>; 99 is the
\* tool change macro tc.macro.
MacroFiles == {<<"/", 100>>, <<"/", 99>>}

\* Handles of redirected files are positive numbers; 0 is the NULL handle.
EmptyFrame == [id |-> 0, file |-> 0]

\* stream_redirect_read() of the core: opens filename and makes it the input;
\* ret is the handle, 0 when the file cannot be opened.
stream_redirect_read(S, filename) ==
    IF filename \in MacroFiles
    THEN LET h == CHOOSE n \in 1..(Len(S.redir) + 1) :
                     \A i \in 1..Len(S.redir) : S.redir[i] # n
         IN  [S EXCEPT !.redir = Append(@, h), !.ret = h]
    ELSE [S EXCEPT !.ret = 0]

\* stream_redirect_close(file) of the core
stream_redirect_close(S, f) ==
    [S EXCEPT !.redir = SelectSeq(@, LAMBDA h : h # f)]

\* end_macro without macro[stack_idx].file = NULL.
end_macro_keeps_handle(S) ==
    LET i  == S.mac.stack_idx
        S1 == IF i >= 0
              THEN LET A == IF S.mac.macro[i].file # 0
                            THEN stream_redirect_close(S, S.mac.macro[i].file)
                            ELSE S
                   IN  [A EXCEPT !.mac.stack_idx = @ - 1]
              ELSE S
    IN  IF S1.mac.stack_idx = -1
        THEN [S1 EXCEPT !.grbl.on_macro_return = S1.mac.on_macro_return,
                        !.mac.on_macro_return = "NULL"]
        ELSE S1

end_macro(S) ==
    LET i  == S.mac.stack_idx
        S1 == IF i >= 0
              THEN LET A == IF S.mac.macro[i].file # 0
                            THEN [stream_redirect_close(S, S.mac.macro[i].file)
                                     EXCEPT !.mac.macro[i].file = 0]
                            ELSE S
                   IN  [A EXCEPT !.mac.stack_idx = @ - 1]
              ELSE S
    IN  IF S1.mac.stack_idx = -1
        THEN [S1 EXCEPT !.grbl.on_macro_return = S1.mac.on_macro_return,
                        !.mac.on_macro_return = "NULL"]
        ELSE S1

RECURSIVE end_all_macros(_)
\* while(stack_idx >= 0) end_macro();
end_all_macros(S) == IF S.mac.stack_idx >= 0 THEN end_all_macros(end_macro(S)) ELSE S

\* The handler is left by a call of the next reset handler in the chain, see
\* call_driver_reset.
plugin_reset(S) == end_all_macros(S)

onG65MacroError(S, status_code) ==
    IF S.mac.stack_idx >= 0
    THEN report_status_message(end_macro(S), status_code, 0)
    ELSE S

onG65MacroEOF(S, f, status) ==
    IF S.mac.stack_idx >= 0 /\ S.mac.macro[S.mac.stack_idx].file = f
    THEN IF status = "OK"
         THEN report_status_message(end_macro(S), status, 0)
         ELSE end_all_macros(S)
    ELSE S

\* macro_start with the test for a full stack off by one.
macro_start_one_too_many(S, filename, macro_id) ==
    IF S.mac.stack_idx >= MACRO_STACK_DEPTH
    THEN [S EXCEPT !.ret = FALSE]
    ELSE LET O == stream_redirect_read(S, filename)
         IN  IF O.ret = 0
             THEN [O EXCEPT !.ret = FALSE]
             ELSE [O EXCEPT
                     !.mac.on_macro_return =
                         IF S.mac.stack_idx = -1 THEN S.grbl.on_macro_return ELSE @,
                     !.grbl.on_macro_return =
                         IF S.mac.stack_idx = -1 THEN "end_macro" ELSE @,
                     !.mac.stack_idx = @ + 1,
                     !.mac.macro[S.mac.stack_idx + 1] = [id |-> macro_id, file |-> O.ret],
                     !.ret = TRUE]

\* macro_start saving grbl.on_macro_return at every push.
macro_start_saves_always(S, filename, macro_id) ==
    IF S.mac.stack_idx >= MACRO_STACK_DEPTH - 1
    THEN [S EXCEPT !.ret = FALSE]
    ELSE LET O == stream_redirect_read(S, filename)
         IN  IF O.ret = 0
             THEN [O EXCEPT !.ret = FALSE]
             ELSE [O EXCEPT
                     !.mac.on_macro_return = S.grbl.on_macro_return,
                     !.grbl.on_macro_return = "end_macro",
                     !.mac.stack_idx = @ + 1,
                     !.mac.macro[S.mac.stack_idx + 1] = [id |-> macro_id, file |-> O.ret],
                     !.ret = TRUE]

macro_start(S, filename, macro_id) ==
    IF S.mac.stack_idx >= MACRO_STACK_DEPTH - 1
    THEN [S EXCEPT !.ret = FALSE]
    ELSE LET O == stream_redirect_read(S, filename)
         IN  IF O.ret = 0
             THEN [O EXCEPT !.ret = FALSE]
             ELSE [O EXCEPT
                     !.mac.on_macro_return =
                         IF S.mac.stack_idx = -1 THEN S.grbl.on_macro_return ELSE @,
                     !.grbl.on_macro_return =
                         IF S.mac.stack_idx = -1 THEN "end_macro" ELSE @,
                     !.mac.stack_idx = @ + 1,
                     !.mac.macro[S.mac.stack_idx + 1] = [id |-> macro_id, file |-> O.ret],
                     !.ret = TRUE]

\* inbuilt is the status the inbuilt macros 1..3 end with; they change nothing
\* of the plugin. The result is left in last.ret; "chained" is whatever the
\* previously installed on_macro_execute handler returns.
macro_execute(S, macro_id, inbuilt) ==
    LET R == IF macro_id < 100
             THEN [S EXCEPT !.last.ret = IF macro_id \in 1..3 THEN inbuilt
                                         ELSE "Status_Unhandled"]
             ELSE IF S.mac.stack_idx < MACRO_STACK_DEPTH - 1 /\ S.state = "IDLE"
             THEN LET A == IF S.mac.LITTLEFS_ENABLE
                           THEN macro_start(S, <<"/littlefs", macro_id>>, macro_id)
                           ELSE [S EXCEPT !.ret = FALSE]
                      B == IF ~A.ret THEN macro_start(A, <<"/", macro_id>>, macro_id)
                           ELSE A
                  IN  [B EXCEPT !.last.ret = IF B.ret THEN "Status_Handled"
                                             ELSE "Status_Unhandled"]
             ELSE [S EXCEPT !.last.ret = "Status_Unhandled"]
    IN  IF R.last.ret = "Status_Unhandled" /\ R.mac.on_macro_execute # "NULL"
        THEN [R EXCEPT !.last.ret = "chained"]
        ELSE R

tool_change(S, current_tool, next_tool) ==
    IF next_tool = -1 THEN [S EXCEPT !.last.ret = "Status_GCodeToolError"]
    ELSE IF current_tool = next_tool \/ next_tool = 0
    THEN [S EXCEPT !.last.ret = "Status_OK"]
    ELSE LET A == macro_start(S, <<"/", 99>>, 99)
         IN  [A EXCEPT !.last.ret = IF A.ret THEN "Status_Unhandled"
                                    ELSE "Status_GCodeToolError"]

\* ------------------------------------------------------- YModem receiver

SOH == 1
STX == 2
EOT == 4
ACK == 6
NAK == 21
CAN == 24
CharC == 67         \* 'C'

SohLen == 128       \* payload of a packet that starts with SOH
StxLen == 1024      \* payload of a packet that starts with STX

MaxErrors == 10

Min(a, b) == IF a < b THEN a ELSE b

RECURSIVE Xor(_, _)
\* bitwise exclusive or of two naturals
Xor(a, b) ==
    IF a = 0 THEN b
    ELSE IF b = 0 THEN a
    ELSE 2 * Xor(a \div 2, b \div 2) + (((a % 2) + (b % 2)) % 2)

RECURSIVE CrcShift(_, _)
\* n steps of the CRC-16/CCITT shift register (polynomial 0x1021)
CrcShift(crc, n) ==
    IF n = 0 THEN crc
    ELSE CrcShift(IF crc >= 32768 THEN Xor((crc * 2) % 65536, 4129)
                  ELSE crc * 2, n - 1)

CrcTable == [b \in 0..255 |-> CrcShift(b * 256, 8)]

RECURSIVE CrcRange(_, _, _, _)
\* The CRC register after the bytes p[i..j], byte by byte; the range is
\* halved, and the first half evaluated before the second is entered, so
\* that the evaluation does not nest deeply.
CrcRange(crc, p, i, j) ==
    IF i > j THEN crc
    ELSE IF i = j
    THEN Xor((crc % 256) * 256, CrcTable[Xor(crc \div 256, p[i])])
    ELSE LET m == (i + j) \div 2
             c == CrcRange(crc, p, i, m)
         IN  IF c >= 0 THEN CrcRange(c, p, m + 1, j) ELSE 0

\* ccitt_crc16() of the core over the first len bytes of the payload buffer
ccitt_crc16(p, len) == CrcRange(0, p, 1, Min(len, Len(p)))

\* The string that starts at p[from]: the bytes before the next 0.
CStr(p, from) ==
    LET stops == {i \in from..Len(p) : p[i] = 0}
        end   == IF stops = {} THEN Len(p) + 1
                 ELSE CHOOSE i \in stops : \A j \in stops : i <= j
    IN  SubSeq(p, from, end - 1)

RECURSIVE AtoiFrom(_, _, _)
AtoiFrom(str, i, acc) ==
    IF i > Len(str) \/ str[i] \notin 48..57 THEN acc
    ELSE AtoiFrom(str, i + 1, acc * 10 + (str[i] - 48))

\* atoi() of a string of digits
atoi(str) == AtoiFrom(str, 1, 0)

\* BUFNEXT(ptr, buffer)
BUFNEXT(ptr) == (ptr + 1) % RxBufferSize

\* memset(&ymodem, 0, sizeof(ymodem_t))
ZeroYmodem ==
    [handle |-> "NULL", filename |-> <<>>, filelength |-> 0, received |-> 0,
     crc |-> 0, idx |-> 0, errors |-> 0, packet_len |-> 0, packet_num |-> 0,
     process |-> "NULL", seq_inv |-> FALSE, crc_lsb |-> FALSE,
     completed |-> FALSE, repeated |-> FALSE, payload |-> <<>>]

\* hal.stream.write_char(c)
write_char(S, c) == [S EXCEPT !.out = Append(@, c)]

\* char is unsigned on the controllers the plugin is built for, so every
\* buffered byte is returned as 0..255 and only an empty buffer gives -1.
get_char(S) ==
    IF S.rx_buffer.tail = S.rx_buffer.head
    THEN [S EXCEPT !.ret = NoData]
    ELSE [S EXCEPT !.ret = S.rx_buffer.data[S.rx_buffer.tail],
                   !.rx_buffer.tail = BUFNEXT(@)]

\* put_char without the test for a full buffer.
put_char_unchecked(S, c) ==
    [S EXCEPT !.rx_buffer.data[S.rx_buffer.head] = c,
              !.rx_buffer.head = BUFNEXT(@),
              !.ret = TRUE]

put_char(S, c) ==
    LET next_head == BUFNEXT(S.rx_buffer.head)
    IN  IF next_head = S.rx_buffer.tail
        THEN [S EXCEPT !.rx_buffer.overflow = 1, !.ret = TRUE]
        ELSE [S EXCEPT !.rx_buffer.data[S.rx_buffer.head] = c,
                       !.rx_buffer.head = next_head,
                       !.ret = TRUE]

\* end_transfer without the close of the destination file.
end_transfer_keeps_file(S, send_ack) ==
    LET A == set_enqueue_rt_handler(S, S.hal_stream, S.ysaved.rt_handler)
        B == [A EXCEPT !.grbl.on_execute_realtime = A.ysaved.on_execute_realtime]
    IN  IF send_ack THEN write_char(write_char(B, ACK), CharC) ELSE B

end_transfer(S, send_ack) ==
    LET A == set_enqueue_rt_handler(S, S.hal_stream, S.ysaved.rt_handler)
        B == [A EXCEPT !.grbl.on_execute_realtime = A.ysaved.on_execute_realtime]
        C == IF B.ymodem.handle # "NULL"
             THEN [B EXCEPT !.vfs.open = FALSE, !.vfs.closes = @ + 1,
                            !.ymodem.handle = "NULL"]
             ELSE B
    IN  IF send_ack THEN write_char(write_char(C, ACK), CharC) ELSE C

await_cancel(S, c) ==
    IF c = CAN THEN [end_transfer(S, FALSE) EXCEPT !.ret = "NOOP"]
    ELSE [S EXCEPT !.ymodem.process = "await_soh", !.ret = "NOOP"]

purge(S, c) == [S EXCEPT !.ret = "NOOP"]

\* The payload buffer is written from index 0 again, so what it held is
\* dropped here: no byte of an earlier packet is read before it is rewritten.
await_soh(S, c) ==
    IF c = SOH \/ c = STX
    THEN [S EXCEPT !.ymodem.idx = 0, !.ymodem.crc = 0, !.ymodem.payload = <<>>,
                   !.ymodem.crc_lsb = FALSE, !.ymodem.seq_inv = FALSE,
                   !.ymodem.repeated = FALSE,
                   !.ymodem.packet_len = IF c = SOH THEN SohLen ELSE StxLen,
                   !.ymodem.process = "await_packetnum",
                   !.ret = "NOOP"]
    ELSE IF c = EOT THEN [end_transfer(S, TRUE) EXCEPT !.ret = "NOOP"]
    ELSE IF c = CAN THEN [S EXCEPT !.ymodem.process = "await_cancel", !.ret = "NOOP"]
    ELSE [S EXCEPT !.ret = "Purge"]

await_packetnum(S, c) ==
    IF S.ymodem.seq_inv
    THEN LET c1 == 255 - c                                  \* c ^= 0xFF
             repeated == S.ymodem.packet_num = c1 - 1
             c2 == IF repeated THEN (c1 + 1) % 256 ELSE c1  \* c++
             A  == [S EXCEPT !.ymodem.repeated = repeated]
         IN  IF c2 = A.ymodem.packet_num
             THEN [A EXCEPT !.ymodem.process = "get_payload", !.ret = "NOOP"]
             ELSE [A EXCEPT !.ret = "Purge"]
    ELSE LET seq_inv == c = S.ymodem.packet_num \/ S.ymodem.packet_num = c - 1
         IN  [S EXCEPT !.ymodem.seq_inv = seq_inv,
                       !.ret = IF seq_inv THEN "NOOP" ELSE "Purge"]

\* payload[idx++] = c; a write past the 1024 bytes of the buffer is undefined
get_payload(S, c) ==
    IF S.ymodem.idx >= StxLen THEN [S EXCEPT !.crashed = TRUE, !.ret = "NOOP"]
    ELSE [S EXCEPT !.ymodem.payload =
                       IF S.ymodem.idx < Len(@)
                       THEN [@ EXCEPT ![S.ymodem.idx + 1] = c]
                       ELSE Append(@, c),
                   !.ymodem.idx = @ + 1,
                   !.ymodem.process =
                       IF S.ymodem.idx + 1 = S.ymodem.packet_len THEN "await_crc" ELSE @,
                   !.ret = "NOOP"]

\* await_crc_packet0 without the length that follows the file name.
await_crc_packet0_no_length(S) ==
    LET name == CStr(S.ymodem.payload, 1)
        A == IF name = <<>> THEN [S EXCEPT !.ret = "NoFile"]
             ELSE LET B == [S EXCEPT !.ymodem.filename = name]
                  IN  IF B.vfs.fault # "open"
                      THEN [B EXCEPT !.ymodem.handle = "W",
                                     !.vfs.open = TRUE, !.vfs.dest = <<>>,
                                     !.ret = "ACKFile"]
                      ELSE [B EXCEPT !.ret = "CAN"]
    IN  [A EXCEPT !.ymodem.packet_num = (@ + 1) % 256]

\* await_crc for a valid packet 0 of a session that has no file name yet:
\* opens the destination or ends the transfer.
await_crc_packet0(S) ==
    LET name == CStr(S.ymodem.payload, 1)
        len  == CStr(S.ymodem.payload, Len(name) + 2)
        A == IF name = <<>> THEN [S EXCEPT !.ret = "NoFile"]
             ELSE LET B == [S EXCEPT !.ymodem.filename = name,
                                     !.ymodem.filelength =
                                         IF len # <<>> THEN atoi(len) ELSE @]
                  IN  IF B.vfs.fault # "open"                 \* vfs_open(filename, "w")
                      THEN [B EXCEPT !.ymodem.handle = "W",
                                     !.vfs.open = TRUE, !.vfs.dest = <<>>,
                                     !.ret = "ACKFile"]
                      ELSE [B EXCEPT !.ret = "CAN"]
    IN  [A EXCEPT !.ymodem.packet_num = (@ + 1) % 256]

\* await_crc_write without the trimming of the last packet.
await_crc_write_untrimmed(S) ==
    IF ~S.ymodem.repeated
    THEN LET received  == S.ymodem.received + S.ymodem.packet_len
             completed == S.ymodem.filelength # 0 /\ received > S.ymodem.filelength
             A == [S EXCEPT !.ymodem.packet_num = (@ + 1) % 256,
                            !.ymodem.received = received,
                            !.ymodem.completed = completed]
             len == A.ymodem.packet_len
         IN  IF A.ymodem.handle = "NULL" \/ len < 0 \/ len > Len(A.ymodem.payload)
             THEN [A EXCEPT !.crashed = TRUE, !.ret = "CAN"]
             ELSE IF A.vfs.fault # "write"
             THEN [A EXCEPT !.vfs.dest = @ \o SubSeq(A.ymodem.payload, 1, len),
                            !.vfs.writes = @ + 1,
                            !.ymodem.idx = IF completed THEN 0 ELSE @,
                            !.ymodem.process = IF completed THEN "await_eot" ELSE @,
                            !.ret = "ACK"]
             ELSE [A EXCEPT !.ret = IF len = 0 THEN "ACK" ELSE "CAN"]
    ELSE [S EXCEPT !.ret = "ACK"]

\* await_crc for a valid data packet: writes the payload to the destination.
\* The counters are unsigned 32 bit numbers that stay far below 2^32 here; a
\* trimmed packet_len below 0 stands for the wrapped value 2^32 + packet_len.
\* vfs_write through a NULL handle, or of more bytes than the payload buffer
\* holds, is undefined.
await_crc_write(S) ==
    IF ~S.ymodem.repeated
    THEN LET received  == S.ymodem.received + S.ymodem.packet_len
             completed == S.ymodem.filelength # 0 /\ received > S.ymodem.filelength
             A == [S EXCEPT !.ymodem.packet_num = (@ + 1) % 256,
                            !.ymodem.received = received,
                            !.ymodem.completed = completed,
                            !.ymodem.packet_len =
                                IF completed
                                THEN @ - (received - S.ymodem.filelength)
                                ELSE @]
             len == A.ymodem.packet_len
         IN  IF A.ymodem.handle = "NULL" \/ len < 0 \/ len > Len(A.ymodem.payload)
             THEN [A EXCEPT !.crashed = TRUE, !.ret = "CAN"]
             ELSE IF A.vfs.fault # "write"
             THEN [A EXCEPT !.vfs.dest = @ \o SubSeq(A.ymodem.payload, 1, len),
                            !.vfs.writes = @ + 1,
                            !.ymodem.idx = IF completed THEN 0 ELSE @,
                            !.ymodem.process = IF completed THEN "await_eot" ELSE @,
                            !.ret = "ACK"]
             ELSE [A EXCEPT !.ret = IF len = 0 THEN "ACK" ELSE "CAN"]
    ELSE [S EXCEPT !.ret = "ACK"]

\* await_crc accepting the packet whatever its CRC.
await_crc_unchecked(S, c) ==
    IF ~S.ymodem.crc_lsb
    THEN [S EXCEPT !.ymodem.crc_lsb = TRUE, !.ymodem.crc = c, !.ret = "NOOP"]
    ELSE LET A == [S EXCEPT !.ymodem.process = "await_soh",
                            !.ymodem.crc = ((@ * 256) % 65536) + c]
         IN  IF A.ymodem.packet_num = 0 /\ A.ymodem.filename = <<>>
             THEN await_crc_packet0(A)
             ELSE await_crc_write(A)

await_crc(S, c) ==
    IF ~S.ymodem.crc_lsb
    THEN [S EXCEPT !.ymodem.crc_lsb = TRUE, !.ymodem.crc = c, !.ret = "NOOP"]
    ELSE LET A == [S EXCEPT !.ymodem.process = "await_soh",
                            !.ymodem.crc = ((@ * 256) % 65536) + c]
         IN  IF ccitt_crc16(A.ymodem.payload, A.ymodem.packet_len) # A.ymodem.crc
             THEN [A EXCEPT !.ret = "Purge"]
             ELSE IF A.ymodem.packet_num = 0 /\ A.ymodem.filename = <<>>
             THEN await_crc_packet0(A)
             ELSE await_crc_write(A)

await_eot(S, c) ==
    IF c = EOT THEN [end_transfer(S, TRUE) EXCEPT !.ret = "NOOP"]
    ELSE [S EXCEPT !.ret = "NOOP"]

\* ymodem.process(c)
call_process(S, c) ==
    CASE S.ymodem.process = "await_soh" -> await_soh(S, c)
      [] S.ymodem.process = "await_packetnum" -> await_packetnum(S, c)
      [] S.ymodem.process = "get_payload" -> get_payload(S, c)
      [] S.ymodem.process = "await_crc" -> await_crc(S, c)
      [] S.ymodem.process = "await_eot" -> await_eot(S, c)
      [] S.ymodem.process = "await_cancel" -> await_cancel(S, c)
      [] S.ymodem.process = "purge" -> purge(S, c)
      [] OTHER -> [S EXCEPT !.crashed = TRUE, !.ret = "NOOP"]

\* The switch of protocol_loop with a YModem_CAN case that sends nothing.
protocol_status_silent_cancel(S, status) ==
    CASE status = "ACK" -> write_char([S EXCEPT !.ymodem.errors = 0], ACK)
      [] status = "ACKFile" ->
             write_char(write_char([S EXCEPT !.ymodem.errors = 0], ACK), CharC)
      [] status = "NoFile" -> end_transfer(write_char(S, ACK), FALSE)
      [] status = "NAK" -> write_char([S EXCEPT !.ymodem.errors = @ + 1], NAK)
      [] status = "CAN" -> end_transfer(S, FALSE)
      [] status = "Purge" ->
             [S EXCEPT !.ymodem.errors = @ + 1, !.ymodem.process = "purge"]
      [] OTHER -> S

\* The switch of protocol_loop on the status a handler returned.
protocol_status(S, status) ==
    CASE status = "ACK" -> write_char([S EXCEPT !.ymodem.errors = 0], ACK)
      [] status = "ACKFile" ->
             write_char(write_char([S EXCEPT !.ymodem.errors = 0], ACK), CharC)
      [] status = "NoFile" -> end_transfer(write_char(S, ACK), FALSE)
      [] status = "NAK" -> write_char([S EXCEPT !.ymodem.errors = @ + 1], NAK)
      [] status = "CAN" -> end_transfer(write_char(write_char(S, CAN), CAN), FALSE)
      [] status = "Purge" ->                       \* and cancel_read_buffer()
             [S EXCEPT !.ymodem.errors = @ + 1, !.ymodem.process = "purge"]
      [] OTHER -> S

RECURSIVE protocol_read_loop(_)
\* while((c = get_char()) != SERIAL_NO_DATA) { ... }
protocol_read_loop(S) ==
    LET G == get_char(S)
    IN  IF G.ret = NoData \/ G.crashed THEN G
        ELSE LET P == call_process(G, G.ret)
                 Q == protocol_status(P, P.ret)
             IN  IF Q.grbl.on_execute_realtime # "protocol_loop" THEN Q
                 ELSE protocol_read_loop(Q)

\* timeout: hal.get_elapsed_ticks() >= ymodem.next_timeout
protocol_loop(S, timeout) ==
    LET A == IF timeout
             THEN LET B == [S EXCEPT !.ymodem.errors = @ + 1]
                  IN  IF B.ymodem.errors > MaxErrors
                      THEN end_transfer(B, FALSE)
                      ELSE write_char([B EXCEPT !.ymodem.process = "await_soh"], NAK)
             ELSE S
        L == protocol_read_loop(A)
    IN  call_chain(L, L.ysaved.on_execute_realtime)

\* The handler is left by a call of the next reset handler in the chain, see
\* call_driver_reset.
on_soft_reset(S) ==
    IF S.grbl.on_execute_realtime = "protocol_loop"
    THEN end_transfer(write_char(write_char(S, CAN), CAN), FALSE)
    ELSE S

trap_initial_soh(S, c) ==
    IF c = SOH \/ c = STX
    THEN LET A == [S EXCEPT !.rx_buffer.head = 0, !.rx_buffer.tail = 0,
                            !.ysaved.rt_handler = rt_handler_of(S, S.hal_stream)]
             B == set_enqueue_rt_handler(A, A.hal_stream, "put_char")
             C == [B EXCEPT !.ysaved.on_execute_realtime = B.grbl.on_execute_realtime,
                            !.grbl.on_execute_realtime = "protocol_loop",
                            !.ymodem = [ZeroYmodem EXCEPT !.process = "await_soh"]]
         IN  put_char(C, c)
    ELSE [S EXCEPT !.ret = TRUE]    \* on_unknown_realtime_cmd == NULL || ...(c)

\* ------------------------------------------------------------ soft reset

RECURSIVE call_driver_reset(_, _)
\* hal.driver_reset(): every handler ends by calling the handler it replaced.
call_driver_reset(S, fn) ==
    CASE fn = "onReset" ->
             LET A == onReset(S) IN call_driver_reset(A, A.saved.driver_reset)
      [] fn = "plugin_reset" ->
             LET A == plugin_reset(S) IN call_driver_reset(A, A.mac.driver_reset)
      [] fn = "on_soft_reset" ->
             LET A == on_soft_reset(S) IN call_driver_reset(A, A.ysaved.driver_reset)
      [] fn = "core" -> S
      [] OTHER -> [S EXCEPT !.crashed = TRUE]

\* ------------------------------------------------------ directory listing

\* File names, paths and output lines are sequences of character codes.
BUFLEN == 80
MAX_PATHLEN == 128
MaxNameLen == 40
FlatDepth == 10
FiletypeSize == 8

Dot == 46
Slash == 47
CMD_STATUS_REPORT == 63     \* '?'
CMD_CYCLE_START == 126      \* '~'
CMD_FEED_HOLD == 33         \* '!'

\* "nc", "ncc", "ngc", "cnc", "gcode", "txt", "text", "tap", "macro"
filetypes ==
    << <<110, 99>>, <<110, 99, 99>>, <<110, 103, 99>>, <<99, 110, 99>>,
       <<103, 99, 111, 100, 101>>, <<116, 120, 116>>, <<116, 101, 120, 116>>,
       <<116, 97, 112>>, <<109, 97, 99, 114, 111>> >>

\* LCAPS(c) of the core: an upper case letter to lower case
LCAPS(c) == IF c \in 65..90 THEN c + 32 ELSE c

\* strchr(s, c) != NULL
strchr(s, c) == \E i \in 1..Len(s) : s[i] = c

\* strrchr(s, c): index of the last c in s, 0 for NULL
strrchr(s, c) ==
    IF strchr(s, c) THEN CHOOSE i \in 1..Len(s) :
                            s[i] = c /\ \A j \in (i + 1)..Len(s) : s[j] # c
    ELSE 0

filename_valid(filename) ==
    IF \/ Len(filename) > MaxNameLen
       \/ strchr(filename, CMD_STATUS_REPORT)
       \/ strchr(filename, CMD_CYCLE_START)
       \/ strchr(filename, CMD_FEED_HOLD)
    THEN "Filename_Invalid" ELSE "Filename_Valid"

allowed(filename, is_file) ==
    LET p == strrchr(filename, Dot)
        ftptr == SubSeq(filename, p + 1, Len(filename))
        filetype == [i \in 1..Len(ftptr) |-> LCAPS(ftptr[i])]
        status == IF ~is_file THEN "Filename_Valid"
                  ELSE IF p = 0 THEN "Filename_Filtered"
                  ELSE IF Len(ftptr) > FiletypeSize - 1 THEN "Filename_Filtered"
                  ELSE IF \E idx \in 1..Len(filetypes) : filetype = filetypes[idx]
                       THEN "Filename_Valid" ELSE "Filename_Filtered"
    IN  IF status = "Filename_Valid" THEN filename_valid(filename) ELSE status

RECURSIVE UInt32Fmt(_)
\* "%lu" of a size
UInt32Fmt(n) ==
    IF n < 10 THEN <<48 + n>> ELSE Append(UInt32Fmt(n \div 10), 48 + (n % 10))

\* "[FILE:", "|SIZE:", "|UNUSABLE", "]" ASCII_EOL, "-1" and ".."
FilePrefix == <<91, 70, 73, 76, 69, 58>>
SizeTag == <<124, 83, 73, 90, 69, 58>>
UnusableTag == <<124, 85, 78, 85, 83, 65, 66, 76, 69>>
LineEnd == <<93, 13, 10>>
MinusOne == <<45, 49>>
DotDot == <<46, 46>>

\* The text snprintf formats for a file of the directory path
FileLine(path, add_sep, name, size, status) ==
    FilePrefix \o path \o (IF add_sep THEN <<Slash>> ELSE <<>>) \o name
        \o SizeTag \o UInt32Fmt(size)
        \o (IF status = "Filename_Invalid" THEN UnusableTag ELSE <<>>) \o LineEnd

\* The text snprintf formats for a directory, cut to the buffer
DirLine(path, name) ==
    LET t == FilePrefix \o path \o name \o SizeTag \o MinusOne \o LineEnd
    IN  SubSeq(t, 1, IF Len(t) < BUFLEN THEN Len(t) ELSE BUFLEN - 1)

\* hal.stream.write(buf)
stream_write(S, buf) == [S EXCEPT !.lst.out = Append(@, buf)]

\* vfs_opendir(path): the entries of the directory; ok is FALSE for NULL
vfs_opendir(S, path) ==
    IF path = <<Slash>> THEN [ok |-> TRUE, entries |-> S.dirs.root]
    ELSE IF \E i \in 1..Len(S.dirs.root) :
                S.dirs.root[i].directory /\ path = <<Slash>> \o S.dirs.root[i].name
         THEN [ok |-> TRUE, entries |-> S.dirs.sub]
         ELSE [ok |-> FALSE, entries |-> <<>>]

RECURSIVE scan_files(_, _, _, _, _, _)
\* Pass 1 of scan_dir from entry i on
scan_files(S, path, depth, entries, i, filtered) ==
    IF i > Len(entries) THEN S
    ELSE LET e == entries[i]
             status == IF filtered THEN allowed(e.name, TRUE)
                       ELSE filename_valid(e.name)
             line == FileLine(path, Len(path) > 1, e.name, e.size, status)
             A == IF ~e.directory /\ status # "Filename_Filtered" /\ Len(line) < BUFLEN
                  THEN stream_write(S, line) ELSE S
             B == IF depth = 0 /\ e.directory
                  THEN stream_write(A, DirLine(path, e.name)) ELSE A
         IN  scan_files(B, path, depth, entries, i + 1, filtered)

RECURSIVE scan_dir(_, _, _, _)
RECURSIVE scan_subdirs(_, _, _, _, _, _)
\* Pass 2 of scan_dir from entry i on; ret is res
scan_subdirs(S, path, depth, entries, i, filtered) ==
    IF i > Len(entries) THEN S
    ELSE IF ~entries[i].directory
         THEN scan_subdirs(S, path, depth, entries, i + 1, filtered)
         ELSE IF Len(path) + Len(entries[i].name) >= MAX_PATHLEN - 1 THEN S
         ELSE LET sub == path \o (IF Len(path) > 1 THEN <<Slash>> ELSE <<>>)
                              \o entries[i].name
                  R == scan_dir(S, sub, depth, filtered)
              IN  IF R.ret # 0 THEN R
                  ELSE scan_subdirs(R, path, depth, entries, i + 1, filtered)

\* ret is 0 or the vfs_errno of a directory that could not be opened (1).
scan_dir(S, path0, depth, filtered) ==
    LET is_root == path0 = <<Slash>>
        dir == vfs_opendir(S, IF path0 = <<>> THEN <<Slash>> ELSE path0)
        entries == dir.entries
    IN  IF ~dir.ok THEN [S EXCEPT !.ret = 1]
        ELSE LET up == ~is_root /\ depth = 0
                 path == IF up THEN <<>> ELSE path0
                 A == IF up THEN stream_write(S, FilePrefix \o DotDot \o SizeTag
                                                 \o MinusOne \o LineEnd)
                      ELSE S
                 B == scan_files(A, path, depth, entries, 1, filtered)
                 subdirs == depth > 0 /\ \E i \in 1..Len(entries) : entries[i].directory
             IN  IF subdirs /\ depth - 1 # 0
                    /\ vfs_opendir(S, IF path = <<>> THEN <<Slash>> ELSE path).ok
                 THEN scan_subdirs([B EXCEPT !.ret = 0], path, depth - 1, entries, 1,
                                   filtered)
                 ELSE [B EXCEPT !.ret = 0]

list_files(S, filtered) ==
    IF ~S.fs_mounted THEN [S EXCEPT !.last.ret = "Status_FsNotMounted"]
    ELSE LET R == scan_dir(S, S.lst.cwd,
                           IF S.lst.hierarchical_listing THEN 0 ELSE FlatDepth, filtered)
         IN  [R EXCEPT !.last.ret = IF R.ret = 0 THEN "Status_OK"
                                    ELSE "Status_FsFailedOpenDir"]

\* $F and $F+ without a file name
cmd_file_filtered(S) == list_files([S EXCEPT !.frewind = FALSE], TRUE)

cmd_file_all(S) == list_files([S EXCEPT !.frewind = FALSE], FALSE)

\* A name of n letters 'a'
Stem(n) == [i \in 1..n |-> 97]

\* Extensions the listed files have: "nc", "NC", "Gcode", "macro", "exe",
\* "ncx", "" and "gcodegcode"
Extensions ==
    { <<110, 99>>, <<78, 67>>, <<71, 99, 111, 100, 101>>, <<109, 97, 99, 114, 111>>,
      <<101, 120, 101>>, <<110, 99, 120>>, <<>>,
      <<103, 99, 111, 100, 101, 103, 99, 111, 100, 101>> }

\* Names of the files a directory may hold: short names with each extension,
\* a name without a dot, two dots, real-time bytes in the name, and names
\* of 40, 41, 48 and 63 bytes.
ListNames ==
    {Stem(1) \o <<Dot>> \o x : x \in Extensions}
    \cup { Stem(1),
           Stem(1) \o <<Dot, 110, 99, Dot, 98, 97, 107>>,
           Stem(1) \o <<Dot, 98, 97, 107, Dot, 110, 99>>,
           Stem(1) \o <<CMD_STATUS_REPORT, Dot, 110, 99>>,
           Stem(1) \o <<CMD_FEED_HOLD, Dot, 116, 97, 112>>,
           Stem(1) \o <<CMD_CYCLE_START, Dot, 101, 120, 101>>,
           Stem(37) \o <<Dot, 110, 99>>,
           Stem(38) \o <<Dot, 110, 99>>,
           Stem(45) \o <<Dot, 110, 99>>,
           Stem(60) \o <<Dot, 110, 99>>,
           Stem(41) \o <<Dot, 101, 120, 101>> }

\* Files a directory may hold; the large size goes with two of the names.
ListFiles ==
    {[name |-> n, directory |-> FALSE, size |-> 5] : n \in ListNames}
    \cup {[name |-> n, directory |-> FALSE, size |-> 123456789] :
              n \in {Stem(1) \o <<Dot, 110, 99>>, Stem(45) \o <<Dot, 110, 99>>}}

\* The subdirectory "d" and what it may hold
SubDir == [name |-> <<100>>, directory |-> TRUE, size |-> 0]

SubFiles ==
    {[name |-> n, directory |-> FALSE, size |-> 5] :
         n \in {Stem(1) \o <<Dot, 110, 99>>, Stem(1) \o <<Dot, 101, 120, 101>>,
                Stem(45) \o <<Dot, 110, 99>>}}

\* Directories of up to MaxDir files with distinct names
FileLists ==
    {f \in UNION {[1..n -> ListFiles] : n \in 0..MaxDir} :
         \A i, j \in 1..Len(f) : i # j => f[i].name # f[j].name}

\* A mounted file system with a root directory and at most one subdirectory,
\* the current directory one of them.
ListInitWith(roots) ==
    /\ dirs \in {[root |-> r, sub |-> <<>>] : r \in roots}
               \cup {[root |-> Append(r, SubDir), sub |-> <<f>>] :
                         r \in roots, f \in SubFiles}
    /\ lst \in {l \in [cwd : {<<Slash>>, <<Slash>> \o SubDir.name},
                      hierarchical_listing : BOOLEAN, out : {<<>>}] :
                     l.cwd = <<Slash>> \/ dirs.sub # <<>>}

\* Nothing on the file system a listing would show
ListIdle ==
    /\ dirs = [root |-> <<>>, sub |-> <<>>]
    /\ lst = [cwd |-> <<Slash>>, hierarchical_listing |-> FALSE, out |-> <<>>]

\* ------------------------------------------------------ job player actions

Running == ~crashed

\* The controller changes state.
SetState ==
    /\ Running
    /\ \E s \in States \ {state} : Commit([Enter("state_set", "") EXCEPT !.state = s])

Mount ==
    /\ Running /\ ~fs_mounted
    /\ Commit(onFsMount(Enter("onFsMount", "")))

Unmount ==
    /\ Running /\ fs_mounted
    /\ Commit(onFsUnmount(Enter("onFsUnmount", "")))

\* A line read from the active stream is a $ command.
CanCommand == hal_stream.read \in {"native", "stream_read"}

CmdFile ==
    /\ Running /\ CanCommand
    /\ \E fname \in FileNames :
          Commit(stream_file(Enter("stream_file", fname), fname))

CmdRewind ==
    /\ Running /\ CanCommand
    /\ Commit([Enter("cmd_rewind", "") EXCEPT !.frewind = TRUE, !.last.ret = "Status_OK"])

CmdList ==
    /\ Running /\ CanCommand /\ frewind
    /\ Commit(cmd_file_filtered([Enter("cmd_file_filtered", "") EXCEPT !.lst.out = <<>>]))

CmdDump ==
    /\ Running /\ CanCommand
    /\ Commit(sd_cmd_to_output(Enter("sd_cmd_to_output", ""), "job"))

\* The main loop polls hal.stream.read().
Poll ==
    /\ Running
    /\ hal_stream.read \in {"stream_read", "await_cycle_start", "stream_get_null"}
    /\ file.line < MaxLine
    /\ LET E == Enter(hal_stream.read, "")
           R == IF hal_stream.read = "stream_read" THEN stream_read(E)
                ELSE [E EXCEPT !.ret = NoData]
       IN  Commit([R EXCEPT !.last.ret = R.ret])

\* The core reports the status of the line it executed.
Status ==
    /\ Running
    /\ \E code \in {"OK", "Error"} :
          Commit(report_status_message(Enter("status_message", code), code, 0))

\* The core signals that the program ended (M2, M30) or returned (M99).
ProgramEnd ==
    /\ Running /\ grbl.on_program_completed = "onProgramCompleted"
    /\ \E flow \in Flows :
          Commit(onProgramCompleted(Enter("on_program_completed", flow), flow))

CycleStart ==
    /\ Running /\ grbl.on_cycle_start = "onCycleStart"
    /\ Commit(onCycleStart(Enter("on_cycle_start", "")))

Reset ==
    /\ Running
    /\ Commit(call_driver_reset(Enter("driver_reset", ""), grbl.driver_reset))

\* The core switches hal.stream to the endpoint of a transport and tells the
\* stream-changed observers.
StreamChange ==
    /\ Running
    /\ \E t \in Transports, w \in BOOLEAN :
          /\ NativeStream(t, w) # hal_stream
          /\ LET E == [Enter("stream_change", "") EXCEPT !.hal_stream = NativeStream(t, w)]
             IN  Commit(IF E.grbl.on_stream_changed # "NULL"
                        THEN call_on_stream_changed(E, t) ELSE E)

\* A transport receives a byte and hands it to its real-time handler.
RtByte ==
    /\ Running
    /\ \E t \in Transports, c \in RtBytes :
          /\ rt[t] # "core"
          /\ LET E == Enter(rt[t], c)
                 R == CASE rt[t] = "drop_input_stream" -> drop_input_stream(E, c)
                        [] rt[t] = "await_toolchange_ack" -> await_toolchange_ack(E, c)
                        [] rt[t] = "check_input_stream" -> check_input_stream(E, c)
                        [] OTHER -> [E EXCEPT !.crashed = TRUE]
             IN  Commit([R EXCEPT !.last.ret = R.ret])

\* The core suspends the input stream for a tool change, and resumes it when
\* the tool change is done, which is after its acknowledge has been received.
Suspend ==
    /\ Running /\ hal_stream.suspend_read = "stream_suspend"
    /\ \E b \in BOOLEAN :
          /\ b \/ hal_stream.read # "stream_get_null"
          /\ Commit(stream_suspend(Enter("stream_suspend", IF b THEN "true" ELSE "false"), b))

RunTask ==
    /\ Running /\ tasks # <<>>
    /\ \E abort \in BOOLEAN :
          LET E == [Enter(Head(tasks), IF abort THEN "abort" ELSE "") EXCEPT
                       !.tasks = Tail(@)]
          IN  Commit(terminate_job(E, abort))

\* State after fs_stream_init() and before the root file system is mounted;
\* files is the set of job files the run ranges over, builds the builds and
\* settings.
JobInitWith(files, mounted, builds) ==
    /\ state = "IDLE"
    /\ cfg \in builds
    /\ disk \in files
    /\ fs_mounted = mounted
    /\ file = [handle |-> "NULL", size |-> 0, pos |-> 0, line |-> 0, eol |-> 0,
               scan_subs |-> FALSE]
    /\ vfs_off = 0
    /\ handles = 0
    /\ frewind = FALSE
    /\ webui = FALSE
    /\ hal_stream = NativeStream("Serial", FALSE)
    /\ active_stream = NullStream
    /\ rt = [t \in Transports |-> "core"]
    /\ grbl = [on_program_completed |-> "core", on_cycle_start |-> "NULL",
               on_stream_changed |-> "core", status_message |-> "core",
               driver_reset |-> IF mounted THEN "onReset" ELSE "plugin_reset",
               on_macro_execute |-> "macro_execute", on_macro_return |-> "NULL",
               on_execute_realtime |-> "core",
               on_unknown_realtime_cmd |-> "trap_initial_soh"]
    /\ saved = [on_program_completed |-> "NULL", on_cycle_start |-> "NULL",
                on_stream_changed |-> "NULL", status_message |-> "NULL",
                enqueue_realtime_command |-> "NULL", read_redirected |-> "NULL",
                driver_reset |-> IF mounted THEN "plugin_reset" ELSE "NULL"]
    /\ tasks = <<>>
    /\ crashed = FALSE
    /\ last = [op |-> "init", arg |-> "", ret |-> "none", fwd |-> 0, msg |-> -1]
    /\ pre = [hal_stream |-> NullStream, grbl |-> grbl, rt |-> rt]
    /\ jobst = "none"
    /\ nl = 0
    /\ completions = -1

\* State of the macro plugin after fs_macros_init(); lfs and chained range
\* over LITTLEFS_ENABLE and over the on_macro_execute handler found installed.
MacroInitWith(lfs, chained) ==
    /\ mac \in [stack_idx : {-1},
                macro : {[i \in 0..(MACRO_STACK_DEPTH - 1) |-> EmptyFrame]},
                on_macro_return : {"NULL"},
                on_macro_execute : chained,
                driver_reset : {"on_soft_reset"},
                LITTLEFS_ENABLE : lfs]
    /\ redir = <<>>
    /\ repeats = 0

MacroIdle == MacroInitWith({FALSE}, {"NULL"})

\* ------------------------------------------------------------ the sender

\* The file the sender uploads: n bytes that count up from seed.
Content(seed, n) == [i \in 1..n |-> (seed + i - 1) % 256]

RECURSIVE Digits(_)
\* n in decimal, as ASCII digits
Digits(n) == IF n < 10 THEN <<48 + n>> ELSE Append(Digits(n \div 10), 48 + (n % 10))

Pad(p, n, b) == p \o [i \in 1..(n - Len(p)) |-> b]

\* A packet on the wire; bad gives it a CRC that does not match.
Packet(hdr, seq, payload, bad) ==
    LET crc == ccitt_crc16(payload, Len(payload))
    IN  <<hdr, seq % 256, 255 - (seq % 256)>> \o payload
          \o <<crc \div 256, ((crc % 256) + (IF bad THEN 1 ELSE 0)) % 256>>

BlockLen(sc) == IF sc.stx THEN StxLen ELSE SohLen

NBlocks(sc) == (sc.len + BlockLen(sc) - 1) \div BlockLen(sc)

\* Packet 0: the file name "f", the length in decimal, padded with zeros.
Packet0(sc) == Packet(SOH, 0, Pad(<<102, 0>> \o Digits(sc.len) \o <<0>>, SohLen, 0), FALSE)

\* Data packet k, the last one padded with 0x1A.
DataPacket(sc, k, bad) ==
    Packet(IF sc.stx THEN STX ELSE SOH, k,
           Pad(SubSeq(Content(sc.seed, sc.len), (k - 1) * BlockLen(sc) + 1,
                      Min(k * BlockLen(sc), sc.len)),
               BlockLen(sc), 26),
           bad)

Lengths == {n \in 1..(MaxBlocks * SohLen) : n % SohLen \in {0, 1}}

\* The uploads the model follows: file, packet size, the data packet whose
\* first transmission is corrupted (0: none), the fault of the file system and
\* the data packet the sender transmits a second time after its ACK, as it
\* does when the ACK got lost (0: none).
Scenarios ==
    {sc \in [seed : {0, 200}, len : Lengths, stx : BOOLEAN,
             corrupt : 0..MaxBlocks, fault : {"none", "open", "write"},
             resend : {0}] :
        /\ sc.corrupt <= NBlocks(sc)
        /\ sc.stx => sc.seed = 0
        /\ sc.fault # "none" => sc.seed = 0 /\ ~sc.stx /\ sc.corrupt = 0}

\* Uploads in which one data packet, not the last of the file, is transmitted
\* a second time
RetransmitScenarios ==
    {sc \in [seed : {0, 200}, len : Lengths, stx : BOOLEAN, corrupt : {0},
             fault : {"none"}, resend : 1..MaxBlocks] :
        sc.resend < NBlocks(sc)}

NoUpload == [seed |-> 0, len |-> 0, stx |-> FALSE, corrupt |-> 0, fault |-> "none",
             resend |-> 0]

\* State of ymodem.c after ymodem_init(), with a sender about to upload one of
\* the given files; phase "off" is a sender that never starts.
YmodemInitWith(scs, phase) ==
    /\ ymodem = ZeroYmodem
    /\ ysaved = [rt_handler |-> "NULL", on_execute_realtime |-> "NULL",
                 driver_reset |-> "core", on_unknown_realtime_cmd |-> "NULL"]
    /\ rx_buffer = [head |-> 0, tail |-> 0, overflow |-> 0,
                    data |-> [i \in 0..(RxBufferSize - 1) |-> 0]]
    /\ gc = [pc |-> "idle", tail |-> 0, data |-> 0, puts |-> 0,
             stored |-> <<>>, returned |-> <<>>]
    /\ out = <<>>
    /\ \E sc \in scs :
          /\ sender = [sc |-> sc, phase |-> phase, blk |-> 0, tx |-> <<>>,
                       naks |-> 0, bad |-> "no", seq |-> <<>>]
          /\ vfs = [dest |-> <<>>, open |-> FALSE, writes |-> 0, closes |-> 0,
                    fault |-> sc.fault]

YmodemIdle == YmodemInitWith({NoUpload}, "off")

\* The sender goes on to data packet k, or to EOT after the last one.
sender_next(S, k) ==
    IF k <= NBlocks(S.sender.sc)
    THEN LET bad == S.sender.sc.corrupt = k /\ S.sender.bad = "no"
         IN  [S EXCEPT !.sender.phase = "data", !.sender.blk = k,
                       !.sender.tx = DataPacket(S.sender.sc, k, bad),
                       !.sender.bad = IF bad THEN "sent"
                                      ELSE IF @ = "sent" THEN "resent" ELSE @]
    ELSE [S EXCEPT !.sender.phase = "eot", !.sender.tx = <<EOT>>]

\* The sender reads the byte c the receiver wrote.
sender_reply(S, c) ==
    LET A == [S EXCEPT !.sender.naks = IF c = NAK THEN @ + 1 ELSE @]
        ph == A.sender.phase
    IN  CASE c = CAN /\ ph \notin {"done", "off"} ->
                 [A EXCEPT !.sender.phase = "aborted", !.sender.tx = <<>>]
          [] ph = "pkt0" /\ c = ACK -> [A EXCEPT !.sender.phase = "pkt0C"]
          [] ph = "pkt0" /\ c = NAK -> [A EXCEPT !.sender.tx = Packet0(A.sender.sc)]
          [] ph = "pkt0C" /\ c = CharC -> sender_next(A, 1)
          [] ph = "data" /\ c = ACK /\ A.sender.sc.resend = A.sender.blk ->
                 [A EXCEPT !.sender.phase = "dup",
                           !.sender.tx = DataPacket(A.sender.sc, A.sender.blk, FALSE)]
          [] ph = "data" /\ c = ACK /\ A.sender.sc.resend # A.sender.blk ->
                 sender_next(A, A.sender.blk + 1)
          [] ph = "data" /\ c = NAK -> sender_next(A, A.sender.blk)
          [] ph = "dup" /\ c = ACK -> sender_next(A, A.sender.blk + 1)
          [] ph = "dup" /\ c = NAK /\ A.sender.naks < MaxRetries ->
                 [A EXCEPT !.sender.tx = DataPacket(A.sender.sc, A.sender.blk, FALSE)]
          [] ph = "dup" /\ c = NAK /\ A.sender.naks >= MaxRetries ->
                 [A EXCEPT !.sender.phase = "aborted", !.sender.tx = <<>>]
          [] ph = "eot" /\ c = ACK -> [A EXCEPT !.sender.phase = "done"]
          [] ph = "eot" /\ c = NAK -> [A EXCEPT !.sender.tx = <<EOT>>]
          [] OTHER -> A

AllBuilds == [WEBUI_ENABLE : BOOLEAN, m98_prescan_enable : BOOLEAN]

DefaultBuild == [WEBUI_ENABLE : {FALSE}, m98_prescan_enable : {FALSE}]

\* The job player's commands and the events of a job that stays on one
\* transport, on one short job file.
JobInit ==
    JobInitWith({<<88, LF>>}, FALSE, AllBuilds) /\ MacroIdle /\ YmodemIdle /\ ListIdle

JobNext ==
    \/ SetState \/ Mount \/ Unmount
    \/ CmdFile \/ CmdRewind \/ CmdList \/ CmdDump
    \/ Poll \/ Status \/ ProgramEnd \/ CycleStart \/ Reset

SpecJob == JobInit /\ [][JobNext]_vars

\* The job file reader on every job file up to MaxLen bytes, with the file
\* system mounted.
ReadInit ==
    JobInitWith(AllFiles, TRUE, AllBuilds) /\ MacroIdle /\ YmodemIdle /\ ListIdle

ReadNext ==
    \/ SetState \/ CmdFile \/ CmdRewind
    \/ Poll \/ ProgramEnd \/ CycleStart

SpecRead == ReadInit /\ [][ReadNext]_vars

\* ---------------------------------------------------- macro plugin actions

\* Records the repeat count L asked for with the frame S pushed on top of S0
\* and forgets it when a frame is popped.
note_repeats(S0, S, L) ==
    [S EXCEPT !.repeats = IF S.mac.stack_idx > S0.mac.stack_idx THEN L
                          ELSE IF S.mac.stack_idx < S0.mac.stack_idx THEN 0
                          ELSE @]

\* The parser executes G65 P<id> L<L>.
MacroExecute ==
    /\ Running /\ grbl.on_macro_execute = "macro_execute"
    /\ \E id \in MacroIds, L \in 1..MaxRepeats,
          inbuilt \in {"Status_OK", "Status_GcodeValueOutOfRange"} :
          /\ id \in 1..3 \/ inbuilt = "Status_OK"
          /\ id >= 100 \/ L = 1
          /\ LET E == Enter("macro_execute", ToString(id))
             IN  Commit(note_repeats(E, macro_execute(E, id, inbuilt), L))

\* The parser executes M6 with a tool change macro attached.
ToolChange ==
    /\ Running
    /\ \E cur \in {1}, next \in {-1, 0, 1, 2} :
          LET E == Enter("tool_change", ToString(next))
          IN  Commit(note_repeats(E, tool_change(E, cur, next), 0))

\* The redirected file the core reads from is at its end.
MacroEOF ==
    /\ Running /\ redir # <<>>
    /\ \E status \in {"OK", "Error"} :
          LET E == Enter("onG65MacroEOF", status)
          IN  Commit(note_repeats(E, onG65MacroEOF(E, redir[Len(redir)], status), 0))

\* A line read from the redirected file ends in an error.
MacroError ==
    /\ Running /\ redir # <<>>
    /\ LET E == Enter("onG65MacroError", "Error")
       IN  Commit(note_repeats(E, onG65MacroError(E, "Error"), 0))

\* The parser executes M99 in a macro.
MacroReturn ==
    /\ Running /\ grbl.on_macro_return = "end_macro"
    /\ LET E == Enter("end_macro", "")
       IN  Commit(note_repeats(E, end_macro(E), 0))

MacroReset ==
    /\ Running
    /\ LET E == Enter("driver_reset", "")
       IN  Commit(note_repeats(E, call_driver_reset(E, grbl.driver_reset), 0))

\* The macro plugin with the file system mounted and no job running.
MacroInit ==
    /\ JobInitWith({<<88, LF>>}, TRUE, DefaultBuild)
    /\ MacroInitWith(BOOLEAN, {"NULL", "core"})
    /\ YmodemIdle
    /\ ListIdle

MacroNext ==
    \/ SetState \/ MacroExecute \/ ToolChange
    \/ MacroEOF \/ MacroError \/ MacroReturn \/ MacroReset

SpecMacro == MacroInit /\ [][MacroNext]_vars

\* -------------------------------------------------------- upload actions

SessionActive == grbl.on_execute_realtime = "protocol_loop"

RxEmpty == rx_buffer.head = rx_buffer.tail

\* Nothing is on its way in either direction and the sender waits for a reply.
Quiet == RxEmpty /\ sender.tx = <<>> /\ out = <<>>

\* The sender starts an upload with packet 0.
SenderStart ==
    /\ Running /\ sender.phase = "idle" /\ ~SessionActive
    /\ Commit([Enter("sender", "start") EXCEPT
                  !.sender.phase = "pkt0", !.sender.tx = Packet0(sender.sc)])

\* The transport receives the next byte of the sender and hands it to its
\* real-time handler, in interrupt context. The main loop keeps up with the
\* line: a byte arrives only when the ring buffer has room for it. A sender
\* that was sent CAN reads it before it sends more.
SendByte ==
    /\ Running /\ sender.tx # <<>>
    /\ IF out = <<>> THEN TRUE ELSE Head(out) # CAN
    /\ LET c == Head(sender.tx)
           h == rt[hal_stream.tp]
           E == [Enter(h, "") EXCEPT !.sender.tx = Tail(@)]
       IN  \/ /\ h = "put_char"
              /\ BUFNEXT(rx_buffer.head) # rx_buffer.tail
              /\ Commit(put_char(E, c))
           \/ /\ h = "core"
              /\ grbl.on_unknown_realtime_cmd = "trap_initial_soh"
              /\ Commit(trap_initial_soh(E, c))

\* The sender reads a byte of the reply once it has sent its packet.
SenderReply ==
    /\ Running /\ out # <<>>
    /\ IF sender.tx = <<>> THEN TRUE ELSE Head(out) = CAN
    /\ Commit(sender_reply([Enter("sender", "reply") EXCEPT !.out = Tail(@)], Head(out)))

\* The foreground process runs protocol_loop. The sender answers within the
\* timeout, so the timeout expires only while the line is quiet.
ProtocolLoop ==
    /\ Running /\ SessionActive
    /\ \E timeout \in BOOLEAN :
          /\ IF timeout THEN Quiet ELSE ~RxEmpty
          /\ Commit(protocol_loop(Enter("protocol_loop",
                                        IF timeout THEN "timeout" ELSE ""), timeout))

\* An upload over the serial transport, with no job running.
YmodemInit ==
    /\ JobInitWith({<<88, LF>>}, TRUE, DefaultBuild)
    /\ MacroIdle
    /\ YmodemInitWith(Scenarios, "idle")
    /\ ListIdle

YmodemNext == SenderStart \/ SendByte \/ SenderReply \/ ProtocolLoop

SpecYmodem == YmodemInit /\ [][YmodemNext]_vars

\* An upload in which the sender transmits one data packet twice.
RetransmitInit ==
    /\ JobInitWith({<<88, LF>>}, TRUE, DefaultBuild)
    /\ MacroIdle
    /\ YmodemInitWith(RetransmitScenarios, "idle")
    /\ ListIdle

SpecRetransmit == RetransmitInit /\ [][YmodemNext]_vars

\* The uploads followed when the sender falls silent: 128 byte packets, no
\* corruption, no fault of the file system.
SilentScenarios ==
    {sc \in Scenarios : sc.seed = 0 /\ ~sc.stx /\ sc.corrupt = 0 /\ sc.fault = "none"}

\* The sender stops in the middle of an upload: what it has not sent yet is
\* never sent and it answers nothing any more.
SenderSilent ==
    /\ Running /\ SessionActive
    /\ sender.phase \in {"pkt0", "pkt0C", "data", "eot"}
    /\ Commit([Enter("sender", "silent") EXCEPT
                  !.sender.phase = "silent", !.sender.tx = <<>>])

SilentInit ==
    /\ JobInitWith({<<88, LF>>}, TRUE, DefaultBuild)
    /\ MacroIdle
    /\ YmodemInitWith(SilentScenarios, "idle")
    /\ ListIdle

SilentNext == SenderStart \/ SendByte \/ SenderReply \/ ProtocolLoop \/ SenderSilent

\* ENABLED <<ProtocolLoop>>_vars: a session is active and either a buffered
\* byte waits or the timeout can expire.
ProtocolLoopEnabled == Running /\ SessionActive /\ (Quiet \/ ~RxEmpty)

\* ENABLED <<SenderReply>>_vars
SenderReplyEnabled == Running /\ out # <<>> /\ (sender.tx = <<>> \/ Head(out) = CAN)

\* Weak fairness of ProtocolLoop and of SenderReply, WF_vars(ProtocolLoop)
\* and WF_vars(SenderReply) with ENABLED written out: the foreground process
\* of the core calls on_execute_realtime again and again while the clock
\* runs, and the line delivers what was written to it.
SpecSilent ==
    /\ SilentInit /\ [][SilentNext]_vars
    /\ ([]<>~ProtocolLoopEnabled \/ []<><<last'.op = "protocol_loop">>_vars)
    /\ ([]<>~SenderReplyEnabled
          \/ []<><<last'.op = "sender" /\ last'.arg = "reply">>_vars)

\* The uploads followed to every end of a session: 128 byte packets, with
\* and without a fault of the file system.
SessionScenarios == {sc \in Scenarios : sc.seed = 0 /\ ~sc.stx /\ sc.corrupt = 0}

\* Packet 0 with an empty file name, which ends a batch.
EmptyPacket0 == Packet(SOH, 0, Pad(<<>>, SohLen, 0), FALSE)

\* The sender closes the batch after its file has been acknowledged.
SenderEndBatch ==
    /\ Running /\ sender.phase = "done" /\ ~SessionActive /\ out = <<>>
    /\ Commit([Enter("sender", "endbatch") EXCEPT
                  !.sender.phase = "endbatch", !.sender.tx = EmptyPacket0])

\* The sender gives up between two packets and sends CAN CAN.
SenderCancel ==
    /\ Running /\ SessionActive /\ sender.tx = <<>>
    /\ sender.phase \in {"pkt0C", "data", "eot"}
    /\ Commit([Enter("sender", "cancel") EXCEPT
                  !.sender.phase = "cancelled", !.sender.tx = <<CAN, CAN>>])

SessionInit ==
    /\ JobInitWith({<<88, LF>>}, TRUE, DefaultBuild)
    /\ MacroIdle
    /\ YmodemInitWith(SessionScenarios, "idle")
    /\ ListIdle

SessionNext ==
    \/ SenderStart \/ SendByte \/ SenderReply \/ ProtocolLoop
    \/ SenderSilent \/ SenderCancel \/ SenderEndBatch \/ Reset

\* Uploads with every way a session ends.
SpecSession == SessionInit /\ [][SessionNext]_vars

\* A job on one short file around a tool change: the input is suspended and
\* resumed and bytes arrive on the transports; the connection stays.
SuspendInit ==
    JobInitWith({<<88, LF>>}, TRUE, DefaultBuild) /\ MacroIdle /\ YmodemIdle /\ ListIdle

SuspendNext == CmdFile \/ Poll \/ Suspend \/ RtByte \/ ProgramEnd

SpecSuspend == SuspendInit /\ [][SuspendNext]_vars

\* A job on one short file that is ended from outside: the connection
\* changes, the queued terminate_job task runs, the controller is reset.
TerminateInit ==
    JobInitWith({<<88, LF>>}, TRUE, DefaultBuild) /\ MacroIdle /\ YmodemIdle /\ ListIdle

\* Motion starts or comes to its end.
Motion ==
    /\ Running
    /\ \E s \in {"IDLE", "CYCLE"} \ {state} :
          Commit([Enter("state_set", "") EXCEPT !.state = s])

TerminateNext == Motion \/ CmdFile \/ StreamChange \/ RunTask \/ Reset

SpecTerminate == TerminateInit /\ [][TerminateNext]_vars

\* ------------------------------------------- more data than was declared

\* The uploads followed when the sender holds more data than the length in
\* its packet 0 says.
TrimScenarios ==
    {sc \in Scenarios : sc.seed = 0 /\ ~sc.stx /\ sc.corrupt = 0 /\ sc.fault = "none"}

\* The data packet that follows the last one of the declared length.
FurtherPacket(sc) == Packet(SOH, NBlocks(sc) + 1, Pad(<<>>, SohLen, 26), FALSE)

\* Instead of EOT the sender transmits one further data packet, and transmits
\* it again when the receiver answers NAK.
SenderMore ==
    /\ Running /\ SessionActive
    /\ \/ /\ sender.phase = "eot" /\ sender.tx = <<EOT>>
          /\ Commit([Enter("sender", "more") EXCEPT
                        !.sender.phase = "more",
                        !.sender.tx = FurtherPacket(sender.sc)])
       \/ /\ sender.phase = "more" /\ sender.tx = <<>>
          /\ out # <<>> /\ Head(out) = NAK
          /\ Commit([Enter("sender", "more") EXCEPT
                        !.out = Tail(@),
                        !.sender.naks = @ + 1,
                        !.sender.tx = FurtherPacket(sender.sc)])

TrimInit ==
    /\ JobInitWith({<<88, LF>>}, TRUE, DefaultBuild)
    /\ MacroIdle
    /\ YmodemInitWith(TrimScenarios, "idle")
    /\ ListIdle

TrimNext == SenderStart \/ SendByte \/ SenderReply \/ ProtocolLoop \/ SenderMore

SpecTrim == TrimInit /\ [][TrimNext]_vars

\* ---------------------------------------------- a foreground that is late

\* One upload of one byte in one packet.
LateScenarios ==
    {sc \in Scenarios : /\ sc.seed = 0 /\ sc.len = 1 /\ ~sc.stx
                        /\ sc.corrupt = 0 /\ sc.fault = "none"}

\* The sender is slow: it waits, once, before it sends the first byte of a
\* data packet.
SenderPause ==
    /\ Running /\ SessionActive
    /\ sender.phase = "data" /\ Len(sender.tx) = SohLen + 5
    /\ sender.naks = 0
    /\ Commit([Enter("sender", "pause") EXCEPT
                  !.sender.phase = "silent", !.sender.tx = <<>>])

\* The sender that fell silent goes on with the packet it was about to send.
SenderResume ==
    /\ Running /\ SessionActive /\ sender.phase = "silent" /\ out = <<>>
    /\ LET E == Enter("sender", "resume")
       IN  Commit(IF sender.blk = 0
                  THEN [E EXCEPT !.sender.phase = "pkt0",
                                 !.sender.tx = Packet0(sender.sc)]
                  ELSE sender_next(E, sender.blk))

\* The foreground process was kept busy for longer than the timeout: when
\* protocol_loop runs again the timeout has expired although bytes the
\* interrupt buffered in the meantime wait in the ring buffer. The model
\* follows the late run that uses up the last retry while the destination
\* file is open.
ProtocolLoopLate ==
    /\ Running /\ SessionActive /\ ~RxEmpty
    /\ ymodem.errors = MaxErrors /\ ymodem.handle # "NULL"
    /\ Commit(protocol_loop(Enter("protocol_loop", "late"), TRUE))

LateInit ==
    /\ JobInitWith({<<88, LF>>}, TRUE, DefaultBuild)
    /\ MacroIdle
    /\ YmodemInitWith(LateScenarios, "idle")
    /\ ListIdle

LateNext ==
    \/ SenderStart \/ SendByte \/ SenderReply \/ ProtocolLoop
    \/ SenderPause \/ SenderResume \/ ProtocolLoopLate

SpecLate == LateInit /\ [][LateNext]_vars

\* ------------------------------------------------ a job and an upload together
\* The transport receives the next byte of the sender while the job player's
\* drop_input_stream is its real-time handler: drop_input_stream hands the
\* byte to the handler stream_file saved, which is put_char when an upload
\* was in progress at the start of the job, and otherwise the core, which
\* asks grbl.on_unknown_realtime_cmd about a control character.
SendByteToJob ==
    /\ Running /\ sender.tx # <<>>
    /\ IF out = <<>> THEN TRUE ELSE Head(out) # CAN
    /\ rt[hal_stream.tp] = "drop_input_stream"
    /\ LET c == Head(sender.tx)
           h == saved.enqueue_realtime_command
           E == [Enter("drop_input_stream", h) EXCEPT !.sender.tx = Tail(@)]
       IN  \/ /\ h = "put_char"
              /\ BUFNEXT(rx_buffer.head) # rx_buffer.tail
              /\ Commit(put_char(E, c))
           \/ /\ h = "core"
              /\ grbl.on_unknown_realtime_cmd = "trap_initial_soh"
              /\ Commit(trap_initial_soh(E, c))

\* The sender starts a packet and gives up at once: the start of header is
\* followed by CAN CAN.
SenderAborts ==
    /\ Running /\ sender.phase = "idle" /\ ~SessionActive
    /\ Commit([Enter("sender", "aborts") EXCEPT
                  !.sender.phase = "cancelled", !.sender.tx = <<SOH, CAN, CAN>>])

BothInit ==
    /\ JobInitWith({<<88, LF>>}, TRUE, DefaultBuild)
    /\ MacroIdle
    /\ YmodemInitWith({NoUpload}, "idle")
    /\ ListIdle

BothNext ==
    \/ CmdFile \/ ProgramEnd \/ Reset
    \/ SenderAborts \/ SendByte \/ SendByteToJob \/ SenderReply \/ ProtocolLoop

\* A file job and an upload over the same transport, started and ended in
\* any order.
SpecBoth == BothInit /\ [][BothNext]_vars

\* ------------------------------------------- ring buffer, statement by statement
\* The receive interrupt calls put_char with the next byte of the line; it
\* runs to completion between any two statements of the main loop. The bytes
\* are numbered so that each is told from every other one.
PutChar ==
    /\ gc.puts < MaxPuts
    /\ LET c == gc.puts + 1
           E == Enter("put_char", "isr")
           A == put_char(E, c)
       IN  Commit([A EXCEPT !.gc.puts = c,
                            !.gc.stored = IF A.rx_buffer.head # rx_buffer.head
                                          THEN Append(@, c) ELSE @])

\* uint_fast16_t tail = rx_buffer.tail;
GetCharEnter ==
    /\ gc.pc = "idle"
    /\ Commit([Enter("get_char", "tail") EXCEPT
                   !.gc.pc = "test", !.gc.tail = rx_buffer.tail])

\* if(tail == rx_buffer.head) return SERIAL_NO_DATA;
GetCharTest ==
    /\ gc.pc = "test"
    /\ LET E == Enter("get_char", "test")
       IN  IF gc.tail = rx_buffer.head
           THEN Commit([E EXCEPT !.gc.pc = "idle", !.last.ret = NoData])
           ELSE Commit([E EXCEPT !.gc.pc = "load"])

\* char data = rx_buffer.data[tail];
GetCharLoad ==
    /\ gc.pc = "load"
    /\ Commit([Enter("get_char", "load") EXCEPT
                   !.gc.pc = "advance", !.gc.data = rx_buffer.data[gc.tail]])

\* rx_buffer.tail = BUFNEXT(tail, rx_buffer); return (int16_t)data;
GetCharAdvance ==
    /\ gc.pc = "advance"
    /\ Commit([Enter("get_char", "advance") EXCEPT
                   !.gc.pc = "idle", !.rx_buffer.tail = BUFNEXT(gc.tail),
                   !.gc.returned = Append(@, gc.data), !.last.ret = gc.data])

RingInit ==
    /\ JobInitWith({<<88, LF>>}, TRUE, DefaultBuild)
    /\ MacroIdle
    /\ YmodemIdle
    /\ ListIdle

RingNext == PutChar \/ GetCharEnter \/ GetCharTest \/ GetCharLoad \/ GetCharAdvance

\* The main loop calling get_char over and over while bytes arrive.
SpecRing == RingInit /\ [][RingNext]_vars

\* Uploads of one 128 byte data packet
SeqScenarios ==
    {sc \in Scenarios : sc.len = SohLen /\ ~sc.stx /\ sc.corrupt = 0 /\ sc.fault = "none"}

\* The numbers and complements a sender puts into the header of the data
\* packet that follows packet 0: the expected number is 1.
SeqNumbers == {0, 1, 2}

\* The sender is about to send data packet 1 and puts the sequence bytes
\* <<f, s>> into its header; payload and CRC are those of the packet.
SenderSeq ==
    /\ Running /\ sender.phase = "data" /\ sender.blk = 1
    /\ sender.tx = DataPacket(sender.sc, 1, FALSE)
    /\ \E f \in SeqNumbers, s \in {255 - n : n \in SeqNumbers} :
          Commit([Enter("sender", "seq") EXCEPT
                     !.sender.phase = "seq", !.sender.seq = <<f, s>>,
                     !.sender.tx = [@ EXCEPT ![2] = f, ![3] = s]])

SeqInit ==
    /\ JobInitWith({<<88, LF>>}, TRUE, DefaultBuild)
    /\ MacroIdle
    /\ YmodemInitWith(SeqScenarios, "idle")
    /\ ListIdle

SeqNext == SenderStart \/ SendByte \/ SenderReply \/ ProtocolLoop \/ SenderSeq

\* An upload whose first data packet carries any pair of sequence bytes.
SpecSeq == SeqInit /\ [][SeqNext]_vars

\* ------------------------------------------------------ hooks re-hooked

HookSlots == {"on_program_completed", "on_cycle_start", "on_stream_changed",
              "status_message"}

\* Another component hooks into a slot of the core while a job runs: it saves
\* the handler it finds and installs its own.
Rehook ==
    /\ Running /\ hal_stream.type = "File" /\ file.handle # "NULL"
    /\ \E slot \in HookSlots :
          /\ grbl[slot] # "plugin"
          /\ Commit([Enter("rehook", slot) EXCEPT !.grbl[slot] = "plugin"])

\* A job during which other components hook into the core.
HookInit ==
    JobInitWith({<<88, LF>>}, TRUE, DefaultBuild) /\ MacroIdle /\ YmodemIdle /\ ListIdle

HookNext == CmdFile \/ Rehook \/ Poll \/ ProgramEnd \/ Reset

SpecHook == HookInit /\ [][HookNext]_vars

\* ------------------------------------------------------ listing actions

\* $F without a file name
ListFiltered ==
    /\ Running /\ CanCommand
    /\ Commit(cmd_file_filtered([Enter("cmd_file_filtered", "") EXCEPT !.lst.out = <<>>]))

\* $F+ without a file name
ListAll ==
    /\ Running /\ CanCommand
    /\ Commit(cmd_file_all([Enter("cmd_file_all", "") EXCEPT !.lst.out = <<>>]))

\* Directory listings of every file system of up to MaxDir root files.
ListInit ==
    /\ JobInitWith({<<88, LF>>}, TRUE, DefaultBuild)
    /\ MacroIdle
    /\ YmodemIdle
    /\ ListInitWith(FileLists)

ListNext == ListFiltered \/ ListAll \/ CmdRewind

SpecList == ListInit /\ [][ListNext]_vars

\* ----------------------------------------------------------- job claims

\* No handler of the job player is attached to a hook of the core or to a
\* transport.
NoJobHooks ==
    /\ grbl.on_program_completed # "onProgramCompleted"
    /\ grbl.on_cycle_start # "onCycleStart"
    /\ grbl.on_stream_changed # "stream_changed"
    /\ grbl.status_message # "trap_status_messages"
    /\ \A t \in Transports :
          rt[t] \notin {"drop_input_stream", "check_input_stream", "await_toolchange_ack"}

\* C1: whenever a running job ends (the step that takes the job from running
\* to ended, by whatever path) hal.stream is again the endpoint it was just
\* before the job started and none of the job player's handlers is attached.
C1_JobEndRestoresStream ==
    [][(jobst = "running" /\ jobst' = "ended")
          => (hal_stream' = pre.hal_stream /\ NoJobHooks')]_vars

\* Number of logical lines of a file: its runs of CR/LF bytes, plus one when
\* the last byte is not a line ending.
LineCount(d) ==
    Cardinality({i \in 1..Len(d) : IsEol(d[i]) /\ (i = 1 \/ ~IsEol(d[i - 1]))})
      + (IF Len(d) > 0 /\ ~IsEol(d[Len(d)]) THEN 1 ELSE 0)

\* C2: while a job runs file.line counts line breaks handed to the reader:
\* it is never ahead of them (no increment without a delivered line, in
\* particular not one per poll that delivers no byte), and it never falls
\* other than by a restart of the file.
C2_LineCountsDeliveredLines ==
    jobst = "running" => file.line <= nl

\* C3: once stream_read has read every byte of the job file and closed it,
\* and no line break is waiting to be counted, file.line is the number of
\* lines of the file, an unterminated last line included.
C3_FinalLineCounted ==
    (jobst = "running" /\ file.handle = "NULL" /\ vfs_off = Len(disk)
        /\ file.eol = 0 /\ last.op = "stream_read")
      => file.line = LineCount(disk)

\* C8: a stream_file call made with the file system mounted while the
\* controller is neither IDLE nor CHECK_MODE returns the system-busy status,
\* opens no file and changes nothing of hal.stream, the hooks, the real-time
\* handlers or the job file.
C8_BusyStartChangesNothing ==
    [][(last'.op = "stream_file" /\ fs_mounted /\ state \notin {"IDLE", "CHECK_MODE"})
          => /\ last'.ret = "Status_SystemGClock"
             /\ handles' = handles /\ file' = file /\ vfs_off' = vfs_off
             /\ hal_stream' = hal_stream /\ active_stream' = active_stream
             /\ grbl' = grbl /\ saved' = saved /\ rt' = rt
             /\ state' = state /\ jobst' = jobst]_vars

\* A job is running in CYCLE and a $F= line in it was answered system-busy.
C8_Witness ==
    /\ last.op = "stream_file" /\ last.arg = "job"
    /\ last.ret = "Status_SystemGClock"
    /\ state = "CYCLE" /\ file.handle # "NULL" /\ handles = 1

\* C9: a program end (M2 or M30) of a running job with rewind armed, by $FR
\* or by M2, outside a subroutine pre-scan and without a WebUI client, leaves
\* the file open at offset 0 with line and eol reset and the reader replaced
\* by the stub that waits for cycle start.
C9_RewindAwaitsCycleStart ==
    [][(/\ jobst = "running" /\ hal_stream.read = "stream_read"
        /\ last'.op \in {"on_program_completed", "stream_read"}
        /\ grbl.on_program_completed = "onProgramCompleted"
        /\ (last'.op = "on_program_completed" => last'.arg \in {"M2", "M30"})
        /\ (last'.op = "stream_read" =>
               file.handle = "NULL" /\ state \in {"IDLE", "CHECK_MODE"})
        /\ (frewind \/ (last'.op = "on_program_completed" /\ last'.arg = "M2"))
        /\ ~file.scan_subs /\ ~hal_stream.m98_macro_prescan
        /\ ~hal_stream.webui_connected
        /\ saved.on_program_completed = "core")
          => /\ file'.handle # "NULL"
             /\ vfs_off' = 0 /\ file'.pos = 0 /\ file'.line = 0 /\ file'.eol = 0
             /\ hal_stream'.read = "await_cycle_start"]_vars

\* C10: file.pos never exceeds file.size, and when the next file_read of the
\* open job file reports physical EOF file.pos equals file.size.
C10_PosWithinSize ==
    /\ file.pos <= file.size
    /\ (file.handle # "NULL" /\ file_read(JS).ret = NoData) => file.pos = file.size

\* A non-empty job file has been read to its end and is still open.
C10_Witness ==
    /\ file.handle # "NULL" /\ file.size = MaxLen /\ file.pos = file.size
    /\ file_read(JS).ret = NoData /\ last.op = "stream_read"

\* --------------------------------------------------------- macro claims

\* The step is a request to push a macro frame: G65 with a macro number of
\* 100 or more, or a tool change to another tool.
PushRequested ==
    \/ last'.op = "macro_execute" /\ last'.arg \in {"100", "101"}
    \/ last'.op = "tool_change" /\ last'.arg = "2"

C26_ToolChangePushesOrUnhandled ==
    [][(/\ last'.op = "tool_change" /\ last'.arg \in {"1", "2"}
        /\ mac.stack_idx < MACRO_STACK_DEPTH - 1)
          => IF last'.arg = "1"
             THEN /\ last'.ret = "Status_Unhandled"
                  /\ mac' = mac /\ redir' = redir
             ELSE /\ mac'.stack_idx = mac.stack_idx + 1
                  /\ mac'.macro[mac'.stack_idx].id = 99
                  /\ Len(redir') = Len(redir) + 1]_vars

\* C27: G65 P<n> for a macro file (n >= 100) in check mode opens nothing and
\* pushes nothing; it returns success when the file P<n>.macro exists and a
\* failure when it does not.
C27_CheckModeOnlyChecksFile ==
    [][(/\ last'.op = "macro_execute" /\ last'.arg \in {"100", "101"}
        /\ state = "CHECK_MODE")
          => (/\ mac' = mac /\ redir' = redir /\ hal_stream' = hal_stream
              /\ (last'.ret \in {"Status_OK", "Status_Handled"})
                    <=> (last'.arg = "100"))]_vars

\* C31: the stack index stays between -1 and MACRO_STACK_DEPTH - 1, every
\* frame up to the top holds a file the core reads redirected input from,
\* and every slot above the top holds no file.
C31_StackFramesHoldOpenFiles ==
    /\ mac.stack_idx \in -1..(MACRO_STACK_DEPTH - 1)
    /\ \A i \in 0..(MACRO_STACK_DEPTH - 1) :
          IF i <= mac.stack_idx
          THEN /\ mac.macro[i].file # 0
               /\ \E k \in 1..Len(redir) : redir[k] = mac.macro[i].file
          ELSE mac.macro[i].file = 0

\* The stack was filled to its last slot and has been popped since.
C31_Witness ==
    /\ mac.stack_idx = MACRO_STACK_DEPTH - 3
    /\ mac.macro[MACRO_STACK_DEPTH - 2].id # 0
    /\ mac.macro[MACRO_STACK_DEPTH - 1].id # 0
    /\ last.op \in {"end_macro", "onG65MacroEOF", "onG65MacroError"}

\* C35: the files the core reads redirected input from are exactly those of
\* the frames on the stack, one per frame; whenever the stack is empty no
\* macro file is open and grbl.on_macro_return holds the handler it held
\* before the first push; a soft reset leaves the stack empty.
C35_MacroFilesClosedOnce ==
    [][/\ Len(redir') = mac'.stack_idx + 1
       /\ \A i, j \in 1..Len(redir') : i # j => redir'[i] # redir'[j]
       /\ mac'.stack_idx = -1
             => /\ redir' = <<>>
                /\ grbl'.on_macro_return = "NULL"
                /\ mac'.on_macro_return = "NULL"
       /\ last'.op = "driver_reset" => mac'.stack_idx = -1]_vars

\* A soft reset has emptied a stack of at least two nested macros.
C35_Witness ==
    /\ last.op = "driver_reset" /\ mac.stack_idx = -1 /\ redir = <<>>
    /\ mac.macro[0].id # 0 /\ mac.macro[1].id # 0
    /\ grbl.on_macro_return = "NULL"

\* C5: the end of the file of a frame that G65 pushed with a repeat count of
\* 2 or more and that has run once does not pop the frame: the stack depth
\* and the open file stay the same (the file is read again from offset 0).
C5_RepeatsRerunTheFile ==
    [][(/\ last'.op = "onG65MacroEOF" /\ last'.arg = "OK"
        /\ mac.stack_idx >= 0 /\ repeats >= 2)
          => (/\ mac'.stack_idx = mac.stack_idx
              /\ mac'.macro[mac.stack_idx].file = mac.macro[mac.stack_idx].file
              /\ redir' = redir)]_vars

\* -------------------------------------------------------- upload claims

NaksSent == sender.naks + Cardinality({i \in 1..Len(out) : out[i] = NAK})

C18_RetransmissionAcknowledged ==
    sender.phase = "dup"
      => /\ vfs.writes = sender.blk
         /\ SessionActive
         /\ ymodem.packet_num = sender.blk + 1
         /\ ymodem.received = sender.blk * BlockLen(sender.sc)
         /\ \A i \in 1..Len(out) : out[i] = ACK

Suspended ==
    /\ file.handle # "NULL" /\ active_stream.tp \in Transports
    /\ rt[active_stream.tp] = "await_toolchange_ack"

\* C22: from stream_suspend(true) until the tool change acknowledge is
\* received no byte is read from the job file and nothing but that
\* acknowledge (or the end of the job) ends the wait; every other byte
\* received meanwhile is passed to the saved real-time handler, which
\* handles it, and nothing else changes.
C22_SuspendedUntilToolAck ==
    [][Suspended
          => (/\ vfs_off' <= vfs_off /\ last'.op # "stream_read"
              /\ ~Suspended' => (last'.arg = "TOOL_ACK" \/ file'.handle = "NULL")
              /\ (last'.op = "await_toolchange_ack" /\ last'.arg # "TOOL_ACK")
                    => (/\ ~crashed'
                        /\ last'.ret = IF last'.arg = "CHAR" THEN 0 ELSE 1
                        /\ hal_stream' = hal_stream /\ rt' = rt
                        /\ file' = file))]_vars

\* C23: when the terminate_job task or a reset ends a job while the
\* controller is in Cycle, the job file is closed and the stream restored
\* only after the controller was seen in Idle or a system abort was seen.
C23_MotionStoppedBeforeJobEnds ==
    [][(/\ last'.op \in {"terminate_job", "driver_reset"}
        /\ state = "CYCLE"
        /\ file.handle # "NULL" /\ file'.handle = "NULL")
          => (state' = "IDLE" \/ last'.arg = "abort")]_vars

\* C24: stream_file with the file system mounted, in Idle or CheckMode, for
\* a name that is no directory and cannot be opened (the file is missing, or
\* it is there and vfs_open fails) returns Status_FileOpenFailed and leaves
\* hal.stream, the hooks, the real-time handlers and the saved endpoint and
\* handlers as they were.
C24_OpenFailureChangesNothing ==
    [][(/\ last'.op = "stream_file" /\ last'.arg \in {"locked", "missing"}
        /\ fs_mounted /\ state \in {"IDLE", "CHECK_MODE"})
          => (/\ last'.ret = "Status_FileOpenFailed"
              /\ hal_stream' = hal_stream /\ grbl' = grbl /\ rt' = rt
              /\ active_stream' = active_stream /\ saved' = saved)]_vars

\* C25: a job started by stream_file while the redirection of an earlier
\* job is in place (hal.stream is the file stream and an endpoint is saved)
\* leaves the saved endpoint as it is, and when a job ends hal.stream is the
\* endpoint of a transport again, read by the transport's own function.
C25_SavedEndpointKept ==
    [][/\ (/\ last'.op = "stream_file" /\ last'.ret = "Status_OK"
           /\ hal_stream.type = "File" /\ active_stream.type # "Null"
           /\ file'.handle # "NULL")
             => active_stream' = active_stream
       /\ (jobst # "ended" /\ jobst' = "ended")
             => (hal_stream'.type \in Transports /\ hal_stream'.read = "native")]_vars

SeqValid ==
    /\ sender.seq[1] \in {ymodem.packet_num, ymodem.packet_num - 1}
    /\ sender.seq[2] = 255 - sender.seq[1]

\* C29: the parser is in the payload state (or beyond it) for the packet
\* only if its two sequence bytes are valid; for any other pair nothing is
\* written, and once the packet has been received in full the parser is in
\* purge for an invalid pair and not in purge for a valid one.
C29_PayloadOnlyAfterValidSequence ==
    sender.phase = "seq"
      => /\ ymodem.process \in {"get_payload", "await_crc"} => SeqValid
         /\ ~SeqValid => vfs.writes = 0
         /\ (sender.tx = <<>> /\ RxEmpty /\ out = <<>> /\ sender.naks = 0
               /\ ymodem.packet_num = 1)
               => (ymodem.process = "purge" <=> ~SeqValid)

\* C30: the bytes get_char has returned are the first of the bytes
\* put_char has stored, in the order stored, whatever the point of get_char
\* at which put_char runs; a put_char that finds the buffer full stores
\* nothing, sets the overflow flag and leaves head, tail and the buffered
\* bytes as they were.
C30_RingBufferIsFifo ==
    [][/\ Len(gc'.returned) <= Len(gc'.stored)
       /\ gc'.returned = SubSeq(gc'.stored, 1, Len(gc'.returned))
       /\ (last'.op = "put_char" /\ BUFNEXT(rx_buffer.head) = rx_buffer.tail)
             => /\ rx_buffer'.overflow = 1
                /\ rx_buffer'.head = rx_buffer.head
                /\ rx_buffer'.tail = rx_buffer.tail
                /\ rx_buffer'.data = rx_buffer.data
                /\ gc'.stored = gc.stored]_vars

\* put_char has run between two statements of a get_char call, a byte was
\* dropped on a full buffer and get_char has returned bytes stored before
\* and after it.
C30_Witness ==
    /\ gc.pc = "advance" /\ last.op = "put_char"
    /\ rx_buffer.overflow = 1
    /\ Len(gc.stored) < gc.puts
    /\ Len(gc.returned) >= RxBufferSize

\* C32: once a job and an upload session that ran on the same transport
\* have both ended, the real-time handler of the transport is the core's
\* again, as before either started.
C32_BothEndedRestoresHandler ==
    (/\ jobst = "ended" /\ ~SessionActive
     /\ ymodem.process # ZeroYmodem.process)
       => rt["Serial"] = "core"

\* C19: during an upload session each expiry of the timeout sends one NAK
\* and sets the parser to await_soh; the error count goes down only when a
\* packet is acknowledged; the expiry that takes the count above MaxErrors
\* ends the session and tells the sender that the transfer is cancelled
\* (CAN is written); and with a silent sender the session ends.
C19_TimeoutNakThenCancel ==
    /\ [][(last'.op = "protocol_loop" /\ last'.arg = "timeout")
            => IF ymodem.errors + 1 > MaxErrors
               THEN /\ ~SessionActive'
                    /\ \E i \in 1..Len(out') : out'[i] = CAN
               ELSE /\ SessionActive'
                    /\ out' = out \o <<NAK>>
                    /\ ymodem'.process = "await_soh"
                    /\ ymodem'.errors = ymodem.errors + 1]_vars
    /\ [][(SessionActive /\ SessionActive' /\ ymodem'.errors < ymodem.errors)
            => (/\ last'.op = "protocol_loop"
                /\ ymodem'.errors = 0
                /\ \E i \in 1..Len(out') : out'[i] = ACK)]_vars
    /\ (sender.phase = "silent" /\ SessionActive) ~> ~SessionActive

C12_DisallowedStateConsumesNothing ==
    [][(last'.op = "stream_read" /\ file.handle # "NULL"
            /\ state \notin {"IDLE", "CYCLE", "HOLD", "CHECK_MODE", "TOOL_CHANGE"})
          => /\ last'.ret = NoData
             /\ file'.handle = file.handle
             /\ file'.pos = file.pos
             /\ vfs_off' = vfs_off]_vars

\* The reader is at the physical end of the open job file.
AtEof == file.handle # "NULL" /\ vfs_off = Len(disk)

\* The last byte read from the job file was a CR or LF.
EndsWithBreak == vfs_off > 0 /\ disk[vfs_off] \in {CR, LF}

\* C13: at physical end of file stream_read closes the job file and returns
\* one synthesized newline if and only if the last byte read from the file
\* was not CR or LF; after a final line break it returns no-data instead.
C13_NewlineOnlyIfUnterminated ==
    [][(last'.op = "stream_read" /\ AtEof /\ ~file.scan_subs
            /\ state \in {"IDLE", "CYCLE", "HOLD", "CHECK_MODE", "TOOL_CHANGE"})
          => /\ file'.handle = "NULL"
             /\ last'.ret = IF EndsWithBreak THEN NoData ELSE LF]_vars

\* C14: for each job, once the job file has been closed at end of file and the
\* controller is in Idle or CheckMode, stream_read raises the program-complete
\* event and the end-of-program message exactly once, however often the reader
\* is polled or a cycle start is given afterwards, also with rewind armed.
C14_ProgramCompleteOnce == completions <= 1

\* C16: a non-OK status that reaches trap_status_messages while the active
\* reader is the job's redirected reader writes the error message with the
\* line number, ends the job (file closed, stream restored) and is forwarded
\* to the status handler installed before the job exactly once.
C16_ErrorEndsJobAndForwardsOnce ==
    [][(/\ last'.op = "status_message" /\ last'.arg = "Error"
        /\ grbl.status_message = "trap_status_messages"
        /\ hal_stream.read = saved.read_redirected)
          => (/\ last'.msg = file.line
              /\ file'.handle = "NULL"
              /\ hal_stream' = pre.hal_stream
              /\ last'.fwd = 1
              /\ ~crashed')]_vars

\* C17: when a job ends, stream_end_job changes each of the four hook slots
\* (program-completed, cycle-start, stream-changed, status-message) only if the
\* slot still holds the handler the job player installed; a slot re-hooked by
\* another component is left as it is.
C17_EndJobKeepsForeignHooks ==
    [][(jobst = "running" /\ jobst' = "ended")
          => /\ grbl.on_program_completed # "onProgramCompleted"
                  => grbl'.on_program_completed = grbl.on_program_completed
             /\ grbl.on_cycle_start # "onCycleStart"
                  => grbl'.on_cycle_start = grbl.on_cycle_start
             /\ grbl.on_stream_changed # "stream_changed"
                  => grbl'.on_stream_changed = grbl.on_stream_changed
             /\ grbl.status_message # "trap_status_messages"
                  => grbl'.status_message = grbl.status_message]_vars

\* ------------------------------------------------------ listing claims

\* The allow-list of the claim
AllowList == {filetypes[i] : i \in 1..Len(filetypes)}

Lower(c) == IF c >= 65 /\ c <= 90 THEN c + 32 ELSE c

\* The extension of name is in the allow-list, compared case-insensitively
ExtAllowed(name) ==
    \E p \in 1..Len(name) :
        /\ name[p] = Dot
        /\ \A j \in (p + 1)..Len(name) : name[j] # Dot
        /\ [i \in 1..(Len(name) - p) |-> Lower(name[p + i])] \in AllowList

\* name is longer than 40 bytes or holds a feed-hold, cycle-start or
\* status-report byte
Unusable(name) ==
    \/ Len(name) > 40
    \/ \E i \in 1..Len(name) : name[i] \in {33, 126, 63}

\* The directory the listing starts in and the path it prints its files with
CurEntries == IF lst.cwd = <<Slash>> THEN dirs.root ELSE dirs.sub

CurPath == IF lst.hierarchical_listing /\ lst.cwd # <<Slash>> THEN <<>> ELSE lst.cwd

ListedAs(f, status) ==
    \E k \in 1..Len(lst.out) :
        lst.out[k] = FileLine(CurPath, Len(CurPath) > 1, f.name, f.size, status)

\* C11: a filtered listing writes a line for a file of the directory if and
\* only if the file's extension, compared case-insensitively, is in the
\* allow-list; a listed file with an over-long name or a real-time byte in
\* its name is written with the |UNUSABLE suffix and is not left out.
C11_FilteredListing ==
    (last.op = "cmd_file_filtered" /\ last.ret = "Status_OK")
        => \A i \in 1..Len(CurEntries) :
              LET f == CurEntries[i]
              IN  ~f.directory
                    => /\ ExtAllowed(f.name)
                            <=> (ListedAs(f, "Filename_Valid")
                                   \/ ListedAs(f, "Filename_Invalid"))
                       /\ (ExtAllowed(f.name) /\ Unusable(f.name))
                            => ListedAs(f, "Filename_Invalid")
                       /\ (ExtAllowed(f.name) /\ ~Unusable(f.name))
                            => ListedAs(f, "Filename_Valid")

\* ------------------------------------------------- a job runs to its end

\* The core signals a program end that is no return from a sub-program.
ProgramEndNoReturn ==
    /\ Running /\ grbl.on_program_completed = "onProgramCompleted"
    /\ \E flow \in Flows \ {"Return"} :
          Commit(onProgramCompleted(Enter("on_program_completed", flow), flow))

FinishInit ==
    JobInitWith({<<88, LF>>}, TRUE, AllBuilds) /\ MacroIdle /\ YmodemIdle /\ ListIdle

\* The main loop polls hal.stream.read(), any number of times: what the call
\* returns is not recorded in last, and the line number, which no decision
\* of the reader depends on, is followed up to MaxLine only.
PollOn ==
    /\ Running
    /\ hal_stream.read \in {"stream_read", "await_cycle_start", "stream_get_null"}
    /\ LET E == Enter(hal_stream.read, "")
           R == IF hal_stream.read = "stream_read" THEN stream_read(E) ELSE E
       IN  Commit([R EXCEPT !.file.line = Min(@, MaxLine)])

FinishNext == SetState \/ CmdFile \/ PollOn \/ ProgramEndNoReturn

\* Weak fairness of PollOn: the main loop of the core calls
\* hal.stream.read() again and again.
SpecFinish ==
    /\ FinishInit /\ [][FinishNext]_vars
    /\ WF_vars(PollOn)

\* ------------------------------------------------- long runs of CR and LF

MaxRun == 257   \* longest run of CR/LF bytes of a job file

\* A job file that is one run of k CR/LF bytes followed by a word character.
EolRun(k) ==
    [i \in 1..(k + 1) |-> IF i > k THEN 88 ELSE IF i % 2 = 1 THEN CR ELSE LF]

EolRuns == {1, 2, MaxRun - 1, MaxRun}

\* Position of byte n of d within its run of contiguous CR/LF bytes; 0 when
\* the byte is no CR/LF.
RunPos(d, n) ==
    IF n = 0 \/ ~IsEol(d[n]) THEN 0
    ELSE CHOOSE j \in 1..n :
            /\ \A i \in (n - j + 1)..n : IsEol(d[i])
            /\ j = n \/ ~IsEol(d[n - j])

EolInit ==
    /\ JobInitWith({EolRun(k) : k \in EolRuns}, TRUE, DefaultBuild)
    /\ MacroIdle
    /\ YmodemIdle
    /\ ListIdle

EolNext == CmdFile \/ Poll \/ ProgramEnd

SpecEol == EolInit /\ [][EolNext]_vars

\* C34: while the file is open file.eol is the position of the last byte read
\* within its run of CR/LF bytes (0 after any other byte), for runs of every
\* length, and a file holding one run has its line number raised once.
C34_EolIsPositionInRun ==
    (file.handle # "NULL" /\ vfs_off > 0)
        => /\ file.eol = RunPos(disk, vfs_off)
           /\ file.line <= 1

\* C36: during a session the payload index is at most the packet length and
\* the packet length at most the 1024 bytes of the payload buffer. The state
\* in which vfs_write was handed a length it must not be handed is a state of
\* the session: end_transfer has not run when the call is made, and the
\* session goes on when the call returns the length it was given.
C36_IndexWithinPacket ==
    (SessionActive \/ crashed)
        => /\ ymodem.packet_len \in 0..StxLen
           /\ ymodem.idx <= ymodem.packet_len

\* C37: with a declared length the length handed to vfs_write is between 0
\* and the size of the packet, nothing is read past the payload buffer and
\* the bytes written never exceed the declared length.
C37_TrimNeverUnderflows ==
    ymodem.filelength > 0
        => /\ ymodem.packet_len \in 0..StxLen
           /\ Len(vfs.dest) <= ymodem.filelength
           /\ ~crashed

\* C39: a protocol_loop whose timeout branch ends the session takes no byte
\* out of the ring buffer afterwards, and no protocol_loop calls vfs_write
\* without a destination handle.
C39_NothingHandledAfterEnd ==
    [][last'.op = "protocol_loop"
          => /\ (last'.arg # "" /\ ymodem.errors >= MaxErrors)
                   => rx_buffer'.tail = rx_buffer.tail
             /\ ~crashed']_vars

\* C38: the queued terminate_job task runs stream_end_job only while a job
\* is active, that is while the saved endpoint is not of type Null.
C38_EndJobOnlyWhileJobActive ==
    [][last'.op = "terminate_job" => active_stream.type # "Null"]_vars

\* -------------------------------------------------------------- pre-scan

\* The step is a stream_read that reads the end of the file.
ReadsEof ==
    /\ last'.op = "stream_read"
    /\ file.handle # "NULL" /\ state \in AllowedRead /\ vfs_off = Len(disk)

\* The file is at its start again, through the handle it was opened with,
\* the pre-scan is over and the job goes on.
RewoundForSecondPass ==
    /\ ~file'.scan_subs /\ ~hal_stream'.m98_macro_prescan
    /\ vfs_off' = 0 /\ file'.pos = 0 /\ file'.line = 0 /\ file'.eol = 0
    /\ state' = "IDLE"
    /\ file'.handle = file.handle /\ file'.handle # "NULL" /\ handles' = handles
    /\ jobst' = "running" /\ hal_stream'.type = "File"

\* C40: a job started from Idle with the pre-scan enabled sets the pre-scan
\* flag and the state CheckMode. The first pass ends at the end of the file
\* or at a program end, and only there: the flag is cleared, the file
\* rewound through the same handle, the counters reset and the state set to
\* Idle, and the job goes on. The reader closes the file only at the end of
\* the file in the second pass.
C40_PrescanReadsTwice ==
    [][~crashed' =>
         /\ (last'.op = "stream_file" /\ last'.arg = "job"
               /\ last'.ret = "Status_OK" /\ state = "IDLE"
               /\ cfg.m98_prescan_enable)
               => file'.scan_subs /\ state' = "CHECK_MODE"
         /\ (file.scan_subs /\ (ReadsEof \/ last'.op = "on_program_completed"))
               => RewoundForSecondPass
         /\ (file.scan_subs /\ ~file'.scan_subs
               /\ last'.op \in {"stream_read", "on_program_completed"})
               => (ReadsEof \/ last'.op = "on_program_completed")
         /\ (last'.op = "stream_read"
               /\ file.handle # "NULL" /\ file'.handle = "NULL")
               => ~file.scan_subs /\ ReadsEof]_vars

\* The job has come to its end: file closed, the stream of the transport
\* active again, no hook of the job player left.
JobFinished ==
    /\ jobst = "ended" /\ file.handle = "NULL" /\ handles = 0
    /\ hal_stream.type # "File" /\ hal_stream.read = "native"
    /\ grbl.on_program_completed # "onProgramCompleted"
    /\ grbl.status_message # "trap_status_messages"
    /\ rt[hal_stream.tp] # "drop_input_stream"

\* C33: when the rewind is never armed and the controller in the end stays
\* in Idle or CheckMode, every running job comes to its end.
C33_JobReturnsToIdle ==
    (<>[](state \in {"IDLE", "CHECK_MODE"}) /\ []~frewind)
        => [](jobst = "running" => <>JobFinished)

====
